---- MODULE Spec2Model ----
(***************************************************************************)
(* HTTP Authenticated Response Content (HARC).                             *)
(*                                                                         *)
(* The signing server (src/src/server-side/src/bin.js, the snapshot that   *)
(* starts at line 362) and the verifier extension                          *)
(* (src/src/web-extension/src/js/background.js).                           *)
(*                                                                         *)
(* JavaScript strings are sequences of UTF-16 code units (numbers), byte   *)
(* buffers are sequences of numbers 0..255, and header values that the     *)
(* code inspects character by character (Content-Type, Content-Encoding)   *)
(* are sequences of one-character strings.                                 *)
(***************************************************************************)
EXTENDS Integers, Sequences, FiniteSets, TLC

(***************************************************************************)
(* Bounds of the model.                                                    *)
(***************************************************************************)
\* Longest upstream body (in bytes) the signer is given.
MaxBodyLen == 2

(***************************************************************************)
(* Character strings.                                                      *)
(***************************************************************************)
UpperLetters == <<"A","B","C","D","E","F","G","H","I","J","K","L","M","N","O","P","Q","R","S","T","U","V","W","X","Y","Z">>
LowerLetters == <<"a","b","c","d","e","f","g","h","i","j","k","l","m","n","o","p","q","r","s","t","u","v","w","x","y","z">>

\* String.prototype.toLowerCase on one character.
LowerChar(c) ==
    IF \E i \in 1..Len(UpperLetters) : UpperLetters[i] = c
    THEN LowerLetters[CHOOSE i \in 1..Len(UpperLetters) : UpperLetters[i] = c]
    ELSE c

\* String.prototype.toLowerCase.
ToLowerCase(s) == [i \in 1..Len(s) |-> LowerChar(s[i])]

\* String.prototype.includes: sub occurs somewhere in s.
Includes(s, sub) ==
    \E i \in 0..(Len(s) - Len(sub)) : SubSeq(s, i + 1, i + Len(sub)) = sub

\* String.prototype.startsWith.
StartsWith(s, sub) ==
    /\ Len(sub) <= Len(s)
    /\ SubSeq(s, 1, Len(sub)) = sub

S_Dash == <<"-">>
S_TextSlash == <<"t","e","x","t","/">>
S_TextHtml == <<"t","e","x","t","/","h","t","m","l">>
S_CharsetUtf8 == <<"c","h","a","r","s","e","t","=","u","t","f","-","8">>
S_CharsetUtf8NoDash == <<"c","h","a","r","s","e","t","=","u","t","f","8">>
S_Gzip == <<"g","z","i","p">>
S_GzipUpper == <<"G","Z","I","P">>
S_Br == <<"b","r">>

\* Content types of the upstream responses the model draws from.
CT_TextHtml == <<"t","e","x","t","/","h","t","m","l">>
CT_TextHtmlUtf8 == <<"t","e","x","t","/","h","t","m","l",";"," ","c","h","a","r","s","e","t","=","u","t","f","-","8">>
CT_TextPlainUtf8Upper == <<"t","e","x","t","/","p","l","a","i","n",";"," ","c","h","a","r","s","e","t","=","U","T","F","-","8">>
CT_AppJson == <<"a","p","p","l","i","c","a","t","i","o","n","/","j","s","o","n">>
CT_AppJsonMixed == <<"A","p","p","l","i","c","a","t","i","o","n","/","J","S","O","N">>
CT_AppJsonUtf8 == <<"a","p","p","l","i","c","a","t","i","o","n","/","j","s","o","n",";"," ","c","h","a","r","s","e","t","=","u","t","f","-","8">>
CT_ImagePng == <<"i","m","a","g","e","/","p","n","g">>
CT_MultipartTextXml == <<"m","u","l","t","i","p","a","r","t","/","r","e","l","a","t","e","d",";"," ","t","y","p","e","=","t","e","x","t","/","x","m","l">>

ContentTypes ==
    { CT_TextHtml, CT_TextHtmlUtf8, CT_TextPlainUtf8Upper, CT_AppJson,
      CT_AppJsonMixed, CT_AppJsonUtf8, CT_ImagePng, CT_MultipartTextXml }

(***************************************************************************)
(* Bytes and text codecs.                                                  *)
(***************************************************************************)
\* The bytes upstream bodies are made of: "A" and the two bytes of the UTF-8
\* encoding of U+00E9 (C3 A9), each of which alone is ill-formed UTF-8.
BodyBytes == {65, 195, 169}

RECURSIVE SeqsUpTo(_, _)
SeqsUpTo(S, n) ==
    IF n = 0 THEN {<<>>}
    ELSE LET shorter == SeqsUpTo(S, n - 1)
         IN  shorter \cup {Append(s, x) : s \in {t \in shorter : Len(t) = n - 1}, x \in S}

Bodies == SeqsUpTo(BodyBytes, MaxBodyLen)

Pow2(k) == 2 ^ k

\* The byte b with bit k (0 = least significant) inverted.
FlipBit(b, k) ==
    IF (b \div Pow2(k)) % 2 = 1 THEN b - Pow2(k) ELSE b + Pow2(k)

IsCont(b, lo, hi) == b >= lo /\ b <= hi

\* A code point as UTF-16 code units.
CodeUnits(cp) ==
    IF cp < 65536 THEN <<cp>>
    ELSE <<55296 + ((cp - 65536) \div 1024), 56320 + ((cp - 65536) % 1024)>>

\* The UTF-8 decoder of the Encoding Standard (an ill-formed sequence becomes
\* U+FFFD per maximal subpart), from byte i of bs on.
RECURSIVE Utf8DecodeFrom(_, _)
Utf8DecodeFrom(bs, i) ==
    IF i > Len(bs) THEN <<>>
    ELSE
      LET b == bs[i]
          has(j) == i + j <= Len(bs)
          lo2 == IF b = 224 THEN 160 ELSE IF b = 240 THEN 144 ELSE 128
          hi2 == IF b = 237 THEN 159 ELSE IF b = 244 THEN 143 ELSE 191
          need == IF b >= 194 /\ b <= 223 THEN 1
                  ELSE IF b >= 224 /\ b <= 239 THEN 2
                  ELSE IF b >= 240 /\ b <= 244 THEN 3
                  ELSE 0
          ok1 == has(1) /\ IsCont(bs[i + 1], lo2, hi2)
          ok2 == ok1 /\ has(2) /\ IsCont(bs[i + 2], 128, 191)
          ok3 == ok2 /\ has(3) /\ IsCont(bs[i + 3], 128, 191)
      IN
        IF b <= 127 THEN <<b>> \o Utf8DecodeFrom(bs, i + 1)
        ELSE IF need = 0 THEN <<65533>> \o Utf8DecodeFrom(bs, i + 1)
        ELSE IF need = 1 THEN
            IF ok1
            THEN <<(b - 192) * 64 + (bs[i + 1] - 128)>> \o Utf8DecodeFrom(bs, i + 2)
            ELSE <<65533>> \o Utf8DecodeFrom(bs, i + 1)
        ELSE IF need = 2 THEN
            IF ok2
            THEN <<(b - 224) * 4096 + (bs[i + 1] - 128) * 64 + (bs[i + 2] - 128)>>
                     \o Utf8DecodeFrom(bs, i + 3)
            ELSE IF ok1 THEN <<65533>> \o Utf8DecodeFrom(bs, i + 2)
            ELSE <<65533>> \o Utf8DecodeFrom(bs, i + 1)
        ELSE
            IF ok3
            THEN CodeUnits((b - 240) * 262144 + (bs[i + 1] - 128) * 4096
                             + (bs[i + 2] - 128) * 64 + (bs[i + 3] - 128))
                     \o Utf8DecodeFrom(bs, i + 4)
            ELSE IF ok2 THEN <<65533>> \o Utf8DecodeFrom(bs, i + 3)
            ELSE IF ok1 THEN <<65533>> \o Utf8DecodeFrom(bs, i + 2)
            ELSE <<65533>> \o Utf8DecodeFrom(bs, i + 1)

Utf8Decode(bs) == Utf8DecodeFrom(bs, 1)

IsHighSurrogate(u) == u >= 55296 /\ u <= 56319
IsLowSurrogate(u) == u >= 56320 /\ u <= 57343

Utf8EncodeCodePoint(cp) ==
    IF cp < 128 THEN <<cp>>
    ELSE IF cp < 2048 THEN <<192 + (cp \div 64), 128 + (cp % 64)>>
    ELSE IF cp < 65536
         THEN <<224 + (cp \div 4096), 128 + ((cp \div 64) % 64), 128 + (cp % 64)>>
    ELSE <<240 + (cp \div 262144), 128 + ((cp \div 4096) % 64),
           128 + ((cp \div 64) % 64), 128 + (cp % 64)>>

\* The UTF-8 encoding of a JavaScript string (a lone surrogate becomes U+FFFD).
RECURSIVE Utf8EncodeFrom(_, _)
Utf8EncodeFrom(str, i) ==
    IF i > Len(str) THEN <<>>
    ELSE
      LET u == str[i]
      IN  IF IsHighSurrogate(u) /\ i < Len(str) /\ IsLowSurrogate(str[i + 1])
          THEN Utf8EncodeCodePoint(65536 + (u - 55296) * 1024 + (str[i + 1] - 56320))
                   \o Utf8EncodeFrom(str, i + 2)
          ELSE IF IsHighSurrogate(u) \/ IsLowSurrogate(u)
          THEN <<239, 191, 189>> \o Utf8EncodeFrom(str, i + 1)
          ELSE Utf8EncodeCodePoint(u) \o Utf8EncodeFrom(str, i + 1)

Utf8Encode(str) == Utf8EncodeFrom(str, 1)

\* Buffer.prototype.toString(encoding) of Node.js for "binary" (latin1: each
\* byte is the character of that code) and "utf-8".
BufferToString(buf, encoding) ==
    IF encoding = "utf-8" THEN Utf8Decode(buf)
    ELSE [i \in 1..Len(buf) |-> buf[i]]

\* The bytes response.end(content, encoding) writes: Buffer.from(content,
\* encoding); "binary" keeps the low byte of each code unit.
BufferFrom(str, encoding) ==
    IF encoding = "utf-8" THEN Utf8Encode(str)
    ELSE [i \in 1..Len(str) |-> str[i] % 256]

\* zlib: the gzip framing is a two-byte magic number, the payload and a
\* trailer that records the payload's length; gunzipSync throws on a body that
\* is not framed so.
Gzip(body) == <<31, 139>> \o body \o <<Len(body)>>

IsGzip(raw) ==
    /\ Len(raw) >= 3
    /\ raw[1] = 31
    /\ raw[2] = 139
    /\ raw[Len(raw)] = Len(raw) - 3

Gunzip(raw) == SubSeq(raw, 3, Len(raw) - 1)

(***************************************************************************)
(* Cryptography, idealised: a signature names the key that made it and the *)
(* exact bytes it was made over, a digest names the bytes it was taken of. *)
(***************************************************************************)
SigningKeys == {"K1", "K2"}

\* The public key of a signing key.
Pub(key) == <<"pub", key>>

\* subtle.sign({name: ECDSA, hash: SHA-256}, key, data).
SubtleSign(key, data) == [signer |-> key, msg |-> data]

\* subtle.digest(SHA-256, data).
SubtleDigest(data) == [sha256of |-> data]

\* crypto.subtle.verify({name: ECDSA, hash: SHA-256}, publicKey, signature, data).
SubtleVerify(publicKey, signature, data) ==
    /\ publicKey = Pub(signature.signer)
    /\ signature.msg = data

\* Buffer.from(x).toString("base64"), and the header values that are no
\* base64 at all.
Base64(x) == <<"b64", x>>

IsBase64(v) == Len(v) = 2 /\ v[1] = "b64"

(***************************************************************************)
(* The signing server: src/src/server-side/src/bin.js.                     *)
(***************************************************************************)
S_AppJavascript == <<"a","p","p","l","i","c","a","t","i","o","n","/","j","a","v","a","s","c","r","i","p","t">>
S_AppJson == <<"a","p","p","l","i","c","a","t","i","o","n","/","j","s","o","n">>
S_AppLdJson == <<"a","p","p","l","i","c","a","t","i","o","n","/","l","d","+","j","s","o","n">>
S_AppXml == <<"a","p","p","l","i","c","a","t","i","o","n","/","x","m","l">>
S_AppAtomXml == <<"a","p","p","l","i","c","a","t","i","o","n","/","a","t","o","m","+","x","m","l">>

APP_CONTENT_TYPE_TO_SIGN ==
    {S_AppJavascript, S_AppJson, S_AppLdJson, S_AppXml, S_AppAtomXml}

\* Header names are kept in lower case, as Node.js keeps them.
HARC_HEADER_ALGO == "x-arc-algo"
HARC_HEADER_DIGEST == "x-arc-digest"
HARC_HEADER_SIGNATURE == "x-arc-signature"
AlgoValue == "ECDSA_P-256; SHA-256"

\* str2ab: a Uint8Array element keeps the low 8 bits of charCodeAt(i).
Str2ab(str) == [i \in 1..Len(str) |-> str[i] % 256]

\* response.setHeader(name, value).
SetHeader(headers, name, value) ==
    [k \in (DOMAIN headers) \cup {name} |-> IF k = name THEN value ELSE headers[k]]

HasHeader(headers, name) == name \in DOMAIN headers

\* proxyRes.headers[name] ?? "-", lower-cased.
HeaderLower(headers, name) ==
    ToLowerCase(IF HasHeader(headers, name) THEN headers[name] ELSE S_Dash)

\* The encoding the signer decodes and sends the body with.
SignerEncoding(contentType) ==
    IF Includes(contentType, S_CharsetUtf8) THEN "utf-8" ELSE "binary"

\* The signer's test for "text-based" content (contentType is lower-cased).
ShouldSign(contentType) ==
    \/ Includes(contentType, S_TextSlash)
    \/ contentType \in APP_CONTENT_TYPE_TO_SIGN

\* The upstream headers copied to the response: all but Content-Encoding.
CopyHeaders(headers) ==
    [k \in (DOMAIN headers) \ {"content-encoding"} |-> headers[k]]

\* The Content-Length header is replaced by content.length when they differ.
FixContentLength(headers, content) ==
    IF /\ HasHeader(headers, "content-length")
       /\ headers["content-length"] # Len(content)
    THEN SetHeader(headers, "content-length", Len(content))
    ELSE headers

\* The headers the signing branch adds.
SignHeaders(headers, content, key, digestHeader) ==
    LET withAlgo == SetHeader(headers, HARC_HEADER_ALGO, AlgoValue)
        withDigest ==
            IF digestHeader
            THEN SetHeader(withAlgo, HARC_HEADER_DIGEST,
                           Base64(SubtleDigest(Str2ab(content))))
            ELSE withAlgo
    IN  SetHeader(withDigest, HARC_HEADER_SIGNATURE,
                  Base64(SubtleSign(key, Str2ab(content))))

\* The handler's promise rejected with the error of the named call: nothing
\* was sent.
Rejected(call) ==
    [ended |-> FALSE, threw |-> call, statusCode |-> 0, headers |-> <<>>,
     body |-> <<>>, signature |-> <<>>]

\* The proxyRes "end" handler of serve. cryptoFail names the crypto call that
\* rejects ("none", "digest" or "sign"). The handler is an async function with
\* no try/catch: when gunzipSync throws or an awaited crypto call rejects, the
\* handler's promise rejects and response.end is never reached.
ServeEnd(proxyRes, key, digestHeader, cryptoFail) ==
    LET contentType == HeaderLower(proxyRes.headers, "content-type")
        contentEncoding == HeaderLower(proxyRes.headers, "content-encoding")
        encoding == SignerEncoding(contentType)
        gzip == ToLowerCase(contentEncoding) = S_Gzip
        gunzipThrows == gzip /\ ~IsGzip(proxyRes.body)
        content == BufferToString(IF gzip THEN Gunzip(proxyRes.body) ELSE proxyRes.body,
                                  encoding)
        copied == FixContentLength(CopyHeaders(proxyRes.headers), content)
        sign == ShouldSign(contentType)
        cryptoRejects ==
            /\ sign
            /\ \/ digestHeader /\ cryptoFail = "digest"
               \/ cryptoFail = "sign"
    IN  IF gunzipThrows THEN Rejected("gunzip")
        ELSE IF cryptoRejects THEN Rejected(cryptoFail)
        ELSE [ended |-> TRUE,
              threw |-> "none",
              statusCode |-> proxyRes.statusCode,
              headers |-> IF sign
                          THEN SignHeaders(copied, content, key, digestHeader)
                          ELSE copied,
              body |-> BufferFrom(content, encoding),
              \* the handler's local "signature": <<>> stands for null
              signature |-> IF sign
                            THEN <<SubtleSign(key, Str2ab(content))>>
                            ELSE <<>>]

\* What the upstream server can answer.
StatusCodes == {200}
ForgedSignature == Base64(SubtleSign("K2", <<>>))

OptionalHeader(name, values) ==
    {<<>>} \cup {(name :> v) : v \in values}

UpstreamBodies ==
    Bodies \cup {Gzip(b) : b \in Bodies}

UpstreamResponsesWith(raw) ==
    { [statusCode |-> sc, headers |-> ct @@ ce @@ cl @@ sg, body |-> raw] :
        sc \in StatusCodes,
        ct \in OptionalHeader("content-type", ContentTypes),
        ce \in OptionalHeader("content-encoding", {S_Gzip, S_GzipUpper, S_Br}),
        cl \in OptionalHeader("content-length", {Len(raw)}),
        sg \in OptionalHeader(HARC_HEADER_SIGNATURE, {ForgedSignature}) }

UpstreamResponses == UNION {UpstreamResponsesWith(raw) : raw \in UpstreamBodies}

(***************************************************************************)
(* The verifier extension: src/src/web-extension/src/js/background.js.     *)
(* Codecs and parsers.                                                     *)
(***************************************************************************)
\* The code points TextDecoder("latin1") gives the bytes 80..9F: the label
\* "latin1" names windows-1252 in the Encoding Standard.
Windows1252High ==
    <<8364, 129, 8218, 402, 8222, 8230, 8224, 8225, 710, 8240, 352, 8249, 338,
      141, 381, 143, 144, 8216, 8217, 8220, 8221, 8226, 8211, 8212, 732, 8482,
      353, 8250, 339, 157, 382, 376>>

Windows1252Decode(bs) ==
    [i \in 1..Len(bs) |->
        IF bs[i] >= 128 /\ bs[i] <= 159 THEN Windows1252High[bs[i] - 127] ELSE bs[i]]

\* TextDecoder("utf-8") removes a leading byte order mark before decoding.
StripBom(bs) ==
    IF Len(bs) >= 3 /\ SubSeq(bs, 1, 3) = <<239, 187, 191>>
    THEN SubSeq(bs, 4, Len(bs))
    ELSE bs

\* The text a TextDecoder of the given label gives for a stream of bytes:
\* decoding chunk by chunk with {stream: true} and flushing at the end equals
\* decoding the concatenation.
TextDecode(label, bs) ==
    IF label = "utf-8" THEN Utf8Decode(StripBom(bs)) ELSE Windows1252Decode(bs)

\* captureResponseEncoding: the decoder label for a response's headers.
ResponseEncoding(headers) ==
    IF /\ HasHeader(headers, "content-type")
       /\ \/ StartsWith(headers["content-type"], S_TextHtml)
          \/ Includes(headers["content-type"], S_CharsetUtf8)
          \/ Includes(headers["content-type"], S_CharsetUtf8NoDash)
    THEN "utf-8"
    ELSE "latin1"

RECURSIVE Flatten(_)
Flatten(chunks) ==
    IF chunks = <<>> THEN <<>> ELSE Head(chunks) \o Flatten(Tail(chunks))

\* The two views onstop publishes: ab is str2ab of the decoded text, blob the
\* bytes as they arrived.
ResponseData(label, chunks) ==
    [ab |-> Str2ab(TextDecode(label, Flatten(chunks))),
     blob |-> Flatten(chunks)]

\* String.prototype.trim (of blanks).
RECURSIVE Trim(_)
Trim(s) ==
    IF s # <<>> /\ Head(s) = " " THEN Trim(Tail(s))
    ELSE IF s # <<>> /\ s[Len(s)] = " " THEN Trim(SubSeq(s, 1, Len(s) - 1))
    ELSE s

\* String.prototype.split(sep).
RECURSIVE Split(_, _)
Split(s, sep) ==
    IF \E i \in 1..Len(s) : s[i] = sep
    THEN LET i == CHOOSE n \in 1..Len(s) :
                      s[n] = sep /\ \A m \in 1..(n - 1) : s[m] # sep
         IN  <<SubSeq(s, 1, i - 1)>> \o Split(SubSeq(s, i + 1, Len(s)), sep)
    ELSE <<s>>

S_Enforce == <<"e","n","f","o","r","c","e">>
S_Warn == <<"w","a","r","n">>
HARC_VALID_ACTIONS == {S_Enforce, S_Warn}

\* The base64 text of the SPKI encoding of a public key is one symbol of a
\* TXT record.
SpkiBase64(key) == IF key = "K1" THEN "SPKI_K1" ELSE "SPKI_K2"

TXT_Enforce_K1 == <<"e","n","f","o","r","c","e",";","SPKI_K1">>
TXT_Warn_K1 == <<"w","a","r","n",";","SPKI_K1">>

\* An action as the rest of the code names it.
ActionName(a) == IF a = S_Enforce THEN "enforce" ELSE "warn"

\* [null, null] and ["doh-failure", null]; a key is <<>> (null) or <<text>>.
NotDeployed == [action |-> "null", key |-> <<>>]
DohFailure == [action |-> "doh-failure", key |-> <<>>]

\* A faulty getHARCDNSPayload: it does not test the action of a record.
ParseAnswersAnyAction(answers) ==
    IF Len(answers) = 0 THEN NotDeployed
    ELSE
      LET payload == Split(answers[1], ";")
      IN  IF Len(payload) = 1
          THEN [action |-> "warn", key |-> <<Trim(payload[1])>>]
          ELSE IF Len(payload) = 2
          THEN [action |-> ActionName(ToLowerCase(Trim(payload[1]))),
                key |-> <<Trim(payload[2])>>]
          ELSE NotDeployed

\* getHARCDNSPayload, from the answers of the TXT query on.
ParseAnswers(answers) ==
    IF Len(answers) = 0 THEN NotDeployed
    ELSE
      LET payload == Split(answers[1], ";")
      IN  IF Len(payload) = 1
          THEN [action |-> "warn", key |-> <<Trim(payload[1])>>]
          ELSE IF Len(payload) = 2
          THEN IF ToLowerCase(Trim(payload[1])) \in HARC_VALID_ACTIONS
               THEN [action |-> ActionName(ToLowerCase(Trim(payload[1]))),
                     key |-> <<Trim(payload[2])>>]
               ELSE NotDeployed
          ELSE NotDeployed

\* crypto.subtle.importKey("spki", str2ab(window.atob(publicKeyDer)), ...):
\* <<the key>>, or <<>> when atob or importKey throws. atob(null) decodes the
\* text "null", which is no SPKI structure.
ImportPublicKey(publicKeyDer) ==
    IF publicKeyDer = <<>> THEN <<>>
    ELSE IF \E k \in SigningKeys : publicKeyDer[1] = <<SpkiBase64(k)>>
    THEN <<Pub(CHOOSE k \in SigningKeys : publicKeyDer[1] = <<SpkiBase64(k)>>)>>
    ELSE <<>>

(***************************************************************************)
(* The browser: tabs, requests and what the network does to a response.    *)
(***************************************************************************)
Tabs == {1}

\* The requests of one tab: a document and an image of it; then the document
\* of a later navigation, and a second request for the image's URL.
MainRequest == 1
SubRequest == 2
NextMainRequest == 3
DuplicateRequest == 4
Requests == {MainRequest, SubRequest, NextMainRequest, DuplicateRequest}

ReqTab(r) == 1
ReqUrl(r) ==
    IF r = MainRequest THEN "https://www.a.example/"
    ELSE IF r = NextMainRequest THEN "https://b.example/"
    ELSE "https://img.b.example/logo.png"
ReqType(r) == IF r \in {MainRequest, NextMainRequest} THEN "main_frame" ELSE "image"
Urls == {ReqUrl(r) : r \in Requests}
BlankUrl == "about:blank"

\* psl.parse(url.hostname): the subdomain is null (<<>>) for a registrable
\* domain itself.
PslParse(url) ==
    IF url = "https://www.a.example/"
    THEN [subdomain |-> <<"www">>, domain |-> "a.example"]
    ELSE IF url = "https://b.example/"
    THEN [subdomain |-> <<>>, domain |-> "b.example"]
    ELSE [subdomain |-> <<"img">>, domain |-> "b.example"]

\* ${x} in a template literal: String(x).
TemplateString(x) == IF x = <<>> THEN "null" ELSE x[1]

\* `${domain.subdomain}.${HARC_DNS_SUBDOMAIN}.${domain.domain}`, as the
\* parts between the dots of the template.
HARC_DNS_SUBDOMAIN == "_arc"
DnsQueryDomain(url) ==
    <<TemplateString(PslParse(url).subdomain), HARC_DNS_SUBDOMAIN, PslParse(url).domain>>

QueryDomains == {DnsQueryDomain(u) : u \in Urls}

DefaultResolver == "https://mozilla.cloudflare-dns.com/dns-query"

\* DOH_SERVER_CHOICES, null written "null".
DOH_SERVER_CHOICES ==
    [choice \in {"cloudflare", "cloudflare-mozilla", "google", "quad9", "disable"} |->
        CASE choice = "cloudflare" -> "https://1.1.1.1/dns-query"
          [] choice = "cloudflare-mozilla" -> DefaultResolver
          [] choice = "google" -> "https://dns.google/dns-query"
          [] choice = "quad9" -> "https://9.9.9.9:5053/dns-query"
          [] choice = "disable" -> "null"]

\* Addresses a user may enter for a custom server: one whose host name
\* resolves, one whose host name does not, and one that is no URL.
CustomResolvable == "https://doh.custom.example/dns-query"
CustomUnresolvable == "https://doh.nowhere.invalid/dns-query"
CustomNotUrl == "doh custom"
CustomAddrs == {CustomResolvable, CustomUnresolvable, CustomNotUrl}

\* A user may also enter the address of a listed server as a custom one.
CustomListed == DOH_SERVER_CHOICES["google"]

\* The host names the DNS of the browser can resolve.
HostResolves(addr) ==
    addr \in {DOH_SERVER_CHOICES[c] : c \in DOMAIN DOH_SERVER_CHOICES} \cup {CustomResolvable}
    /\ addr # "null"

\* validateDohServer(addr): what it may return. `new URL(addr)` throws for
\* null and for what is no URL; dns.resolve rejects for a host name that does
\* not resolve, and may fail for one that does.
ValidateDohServer(addr) ==
    IF HostResolves(addr) THEN BOOLEAN ELSE {FALSE}

\* What an intermediary does to a response in transit: nothing (<<>>), or it
\* inverts bit `bit` of body byte `pos` (<<pos, bit>>).
Honest == <<>>

BitFlips(n) == {<<pos, bit>> : pos \in 1..n, bit \in 0..7}

Tamper(body, op) ==
    IF op = Honest \/ op[1] > Len(body) THEN body
    ELSE [i \in 1..Len(body) |-> IF i = op[1] THEN FlipBit(body[i], op[2]) ELSE body[i]]

\* The response the browser receives for an upstream response served
\* through the signer and the intermediary.
Delivered(up, key, digestHeader, op) ==
    LET signed == ServeEnd(up, key, digestHeader, "none")
    IN  [headers |-> signed.headers, body |-> Tamper(signed.body, op)]

(***************************************************************************)
(* State.                                                                  *)
(***************************************************************************)
VARIABLES
    \* The signing server process.
    keyFile,          \* what args.signingKey names on disk
    args,             \* the command line: port, digestHeader
    proc,             \* "start", "importing", "listening", "exited", "crashed"
    exitCode,         \* <<>> while running, <<code>> once process.exit(code) ran
    harcSigningKey,   \* the imported key, "none" before
    proxyRes,         \* <<>> or <<the upstream response being handled>>
    reqState,         \* "idle", "pending", "answered", "unanswered"
    downstream,       \* <<>> or <<the response sent to the client>>
    rejection,        \* the call whose error rejected the handler, or "none"
    \* The world around the extension.
    upstream,         \* per request: the upstream response the origin gives
    intermediary,     \* per request: what the intermediary does to it
    dnsTxt,           \* per query name: the TXT answers of the zone
    removed,          \* per tab: tabs.onRemoved has fired for it
    output,           \* per request: what its response filter passed on
    reply,            \* <<>> or <<the result of the last runtime message>>
    tabUrl,           \* per tab: tab.url
    wire,             \* per request: <<>> or <<the response received>>
    \* The extension's globals.
    DNS_DOH_RESOLVER,
    TAB_ACTION_MAP,               \* per tab: an action or "absent"
    TAB_RESPONSES_MAP,            \* per tab: <<>> or <<url -> <<>> | <<data>> >>
    TAB_RESPONSES_ENCODING_MAP,   \* per request id: a label or "absent"
    VALIDATION_RESULT_MAP,        \* per tab: a trust state or "absent"
    injected,         \* per tab: the files passed to tabs.executeScript
    detached,         \* per tab: the Map clearTabRecords took out of
                      \* TAB_RESPONSES_MAP, still referenced by evaluations
    calls,            \* per call of setDohServer: its frame
    \* Per request: the closure of captureResponseContent and the frame of
    \* verifyResponseContent.
    cap,
    ver

signerVars ==
    <<keyFile, args, proc, exitCode, harcSigningKey, proxyRes, reqState, downstream,
      rejection>>

\* The tabs' lifetime, the filters' outputs, the messages of the extension's
\* pages and the Map objects no global refers to any more.
sessionVars == <<removed, output, reply, detached, calls>>

worldVars == <<upstream, intermediary, dnsTxt, sessionVars>>

clientVars ==
    <<tabUrl, wire, DNS_DOH_RESOLVER, TAB_ACTION_MAP, TAB_RESPONSES_MAP,
      TAB_RESPONSES_ENCODING_MAP, VALIDATION_RESULT_MAP, injected, cap, ver>>

vars == <<signerVars, worldVars, clientVars>>

(***************************************************************************)
(* The signing server process: main, importSigningKey, serve.              *)
(***************************************************************************)
KeyFiles == {"missing", "directory", "unreadable", "notBase64", "notPkcs8", "valid"}
Ports == {0, 5000, 65536}

\* fs.statSync(args.signingKey) finds a regular file.
KeyFileIsFile(kf) == kf \notin {"missing", "directory"}

\* The synchronous part of importSigningKey throws: readFileSync on a file
\* that cannot be read, atob on text that is no base64.
ImportThrows(kf) == kf \in {"unreadable", "notBase64"}

\* A faulty importKey: it resolves whatever the file holds.
ImportResolvesAnyFile(kf) == kf = kf

\* subtle.importKey("pkcs8", ...) resolves.
ImportResolves(kf) == kf = "valid"

Exit(code) ==
    /\ proc' = "exited"
    /\ exitCode' = <<code>>

\* main up to the call of importSigningKey(...).then(...).catch(...).
Main ==
    /\ proc = "start"
    /\ IF args.port < 1 \/ args.port > 65535
       THEN Exit(1)
       ELSE IF ~KeyFileIsFile(keyFile)
       THEN Exit(1)
       ELSE IF ImportThrows(keyFile)
       THEN Exit(1)
       ELSE proc' = "importing" /\ UNCHANGED exitCode
    /\ UNCHANGED <<keyFile, args, harcSigningKey, proxyRes, reqState, downstream, rejection>>
    /\ UNCHANGED <<worldVars, clientVars>>

\* The promise of subtle.importKey settles: the then-handler calls serve, which
\* ends in proxyServer.listen (serveThrows: serve threw before listening); the
\* catch-handler exits.
ImportSettled ==
    /\ proc = "importing"
    /\ \E serveThrows \in BOOLEAN :
        IF ImportResolves(keyFile)
        THEN IF serveThrows
             THEN Exit(1) /\ UNCHANGED harcSigningKey
             ELSE /\ proc' = "listening"
                  /\ harcSigningKey' = "K1"
                  /\ UNCHANGED exitCode
        ELSE Exit(1) /\ UNCHANGED harcSigningKey
    /\ UNCHANGED <<keyFile, args, proxyRes, reqState, downstream, rejection>>
    /\ UNCHANGED <<worldVars, clientVars>>

\* A request was proxied and the upstream response has arrived in full. The
\* handler keeps its state in its own closure, so one request stands for all.
ProxyRes ==
    /\ proc = "listening"
    /\ reqState = "idle"
    /\ \E up \in UpstreamResponses : proxyRes' = <<up>>
    /\ reqState' = "pending"
    /\ downstream' = <<>>
    /\ UNCHANGED <<keyFile, args, proc, exitCode, harcSigningKey, rejection>>
    /\ UNCHANGED <<worldVars, clientVars>>

\* The proxyRes "end" handler. When it rejects, nothing answers the request;
\* whether the unhandled rejection also ends the process depends on the
\* Node.js version.
ProxyResEnd ==
    /\ proc = "listening"
    /\ reqState = "pending"
    /\ \E cryptoFail \in {"none", "digest", "sign"}, crashes \in BOOLEAN :
        LET out == ServeEnd(proxyRes[1], harcSigningKey, args.digestHeader, cryptoFail)
        IN  IF out.ended
            THEN /\ downstream' = <<out>>
                 /\ reqState' = "answered"
                 /\ UNCHANGED <<proc, rejection>>
            ELSE /\ downstream' = <<>>
                 /\ reqState' = "unanswered"
                 /\ rejection' = out.threw
                 /\ proc' = IF crashes THEN "crashed" ELSE proc
    /\ UNCHANGED <<keyFile, args, exitCode, harcSigningKey, proxyRes>>
    /\ UNCHANGED <<worldVars, clientVars>>

(***************************************************************************)
(* Response capture: captureResponseContent, captureResponseEncoding and   *)
(* the handlers of the response filter.                                    *)
(***************************************************************************)
CapIdle == [pc |-> "none", decoder |-> "undefined", chunks |-> <<>>, rest |-> <<>>]

VerIdle ==
    [pc |-> "none", tabUrl |-> BlankUrl, dnsQueryDomain |-> <<>>,
     resolver |-> "none", action |-> "null", key |-> <<>>,
     publicKey |-> <<>>, signature |-> <<>>, data |-> <<>>, i |-> 0,
     blobOk |-> "none", abOk |-> "none", outcome |-> "none",
     failureAction |-> "none"]

EmptyResponses == [u \in Urls |-> <<>>]

\* TAB_RESPONSES_MAP.get(tabId).has(url)
HasResponse(t, url) ==
    TAB_RESPONSES_MAP[t] # <<>> /\ TAB_RESPONSES_MAP[t][1][url] # <<>>

\* The Map an evaluation holds in `tabResponses`: the one it got from
\* TAB_RESPONSES_MAP when it started, which clearTabRecords may since have
\* taken out of TAB_RESPONSES_MAP.
TabResponses(t) ==
    IF TAB_RESPONSES_MAP[t] # <<>> THEN TAB_RESPONSES_MAP[t] ELSE detached[t]

\* tabResponses.has(url)
TabResponsesHas(t, url) ==
    TabResponses(t) # <<>> /\ TabResponses(t)[1][url] # <<>>

\* The calls of setDohServer that may be in progress at once, and the frame
\* of one that has not started.
Calls == {1, 2}
CallIdle == [pc |-> "none", payload |-> <<>>, success |-> TRUE]

\* The filter's output before anything was written.
FilterIdle == [written |-> <<>>, closed |-> FALSE]

\* captureResponseContent up to `await browser.tabs.get(tabId)`.
BeforeRequest(r) ==
    /\ cap[r].pc = "none"
    /\ ~removed[ReqTab(r)]
    /\ TAB_RESPONSES_MAP' =
          IF TAB_RESPONSES_MAP[ReqTab(r)] = <<>>
          THEN [TAB_RESPONSES_MAP EXCEPT ![ReqTab(r)] = <<EmptyResponses>>]
          ELSE TAB_RESPONSES_MAP
    /\ cap' = [cap EXCEPT ![r].pc = "tabget"]
    /\ UNCHANGED <<tabUrl, wire, DNS_DOH_RESOLVER, TAB_ACTION_MAP,
                   TAB_RESPONSES_ENCODING_MAP, VALIDATION_RESULT_MAP, injected, ver>>
    /\ UNCHANGED <<signerVars, worldVars>>

\* captureResponseContent from the tab object on: the stale result of the
\* tab's document is dropped and the response filter is attached.
CaptureTabGot(r) ==
    /\ cap[r].pc = "tabget"
    /\ IF removed[ReqTab(r)]
       THEN /\ cap' = [cap EXCEPT ![r].pc = "error"]
            /\ UNCHANGED VALIDATION_RESULT_MAP
       ELSE /\ VALIDATION_RESULT_MAP' =
                  IF ReqUrl(r) = tabUrl[ReqTab(r)]
                  THEN [VALIDATION_RESULT_MAP EXCEPT ![ReqTab(r)] = "absent"]
                  ELSE VALIDATION_RESULT_MAP
            /\ cap' = [cap EXCEPT ![r].pc = "filter"]
    /\ UNCHANGED <<tabUrl, wire, DNS_DOH_RESOLVER, TAB_ACTION_MAP, TAB_RESPONSES_MAP,
                   TAB_RESPONSES_ENCODING_MAP, injected, ver>>
    /\ UNCHANGED <<signerVars, worldVars>>

\* The response arrives (through signer and intermediary) and
\* onHeadersReceived runs captureResponseEncoding. The requests of a removed
\* tab are cancelled: no event of theirs follows.
HeadersReceived(r) ==
    /\ cap[r].pc = "filter"
    /\ ~removed[ReqTab(r)]
    /\ wire[r] = <<>>
    /\ LET response == Delivered(upstream[r], harcSigningKey, args.digestHeader,
                                  intermediary[r])
       IN  /\ wire' = [wire EXCEPT ![r] = <<response>>]
           /\ TAB_RESPONSES_ENCODING_MAP' =
                 [TAB_RESPONSES_ENCODING_MAP EXCEPT ![r] = ResponseEncoding(response.headers)]
    /\ cap' = [cap EXCEPT ![r].pc = "headers"]
    /\ UNCHANGED <<tabUrl, DNS_DOH_RESOLVER, TAB_ACTION_MAP, TAB_RESPONSES_MAP,
                   VALIDATION_RESULT_MAP, injected, ver>>
    /\ UNCHANGED <<signerVars, worldVars>>

\* responseFilter.onstart. A main_frame response is committed to its tab at
\* this point: tab.url becomes the document's URL.
FilterOnStart(r) ==
    /\ cap[r].pc = "headers"
    /\ ~removed[ReqTab(r)]
    /\ cap' = [cap EXCEPT ![r] =
                 [pc |-> "data",
                  decoder |-> IF TAB_RESPONSES_ENCODING_MAP[r] # "absent"
                              THEN TAB_RESPONSES_ENCODING_MAP[r]
                              ELSE "latin1",
                  chunks |-> <<>>,
                  rest |-> wire[r][1].body]]
    /\ TAB_RESPONSES_ENCODING_MAP' = [TAB_RESPONSES_ENCODING_MAP EXCEPT ![r] = "absent"]
    /\ tabUrl' = IF ReqType(r) = "main_frame"
                 THEN [tabUrl EXCEPT ![ReqTab(r)] = ReqUrl(r)]
                 ELSE tabUrl
    /\ UNCHANGED <<wire, DNS_DOH_RESOLVER, TAB_ACTION_MAP, TAB_RESPONSES_MAP,
                   VALIDATION_RESULT_MAP, injected, ver>>
    /\ UNCHANGED <<signerVars, worldVars>>

\* A faulty tap: it records the chunk and passes nothing on.
FilterWriteNothing(written, data) == written

\* responseFilter.write(event.data)
FilterWrite(written, data) == Append(written, data)

\* responseFilter.ondata: the next chunk is written through and recorded.
FilterOnData(r) ==
    /\ cap[r].pc = "data"
    /\ ~removed[ReqTab(r)]
    /\ cap[r].rest # <<>>
    /\ \E n \in 1..Len(cap[r].rest) :
          /\ output' = [output EXCEPT ![r].written =
                                          FilterWrite(@, SubSeq(cap[r].rest, 1, n))]
          /\ cap' = [cap EXCEPT ![r].chunks = Append(@, SubSeq(cap[r].rest, 1, n)),
                                ![r].rest = SubSeq(@, n + 1, Len(@))]
    /\ UNCHANGED <<tabUrl, wire, DNS_DOH_RESOLVER, TAB_ACTION_MAP, TAB_RESPONSES_MAP,
                   TAB_RESPONSES_ENCODING_MAP, VALIDATION_RESULT_MAP, injected, ver>>
    /\ UNCHANGED <<signerVars, upstream, intermediary, dnsTxt, removed, reply, detached,
                   calls>>

\* responseFilter.onstop up to `await responseBlob.arrayBuffer()`.
FilterOnStop(r) ==
    /\ cap[r].pc = "data"
    /\ ~removed[ReqTab(r)]
    /\ cap[r].rest = <<>>
    /\ output' = [output EXCEPT ![r].closed = TRUE]
    /\ cap' = [cap EXCEPT ![r].pc = "blob"]
    /\ UNCHANGED <<tabUrl, wire, DNS_DOH_RESOLVER, TAB_ACTION_MAP, TAB_RESPONSES_MAP,
                   TAB_RESPONSES_ENCODING_MAP, VALIDATION_RESULT_MAP, injected, ver>>
    /\ UNCHANGED <<signerVars, upstream, intermediary, dnsTxt, removed, reply, detached,
                   calls>>

\* responseFilter.onstop after the await: the captured views are published
\* under the request's URL.
FilterPublished(r) ==
    /\ cap[r].pc = "blob"
    /\ IF TAB_RESPONSES_MAP[ReqTab(r)] = <<>>
       THEN /\ cap' = [cap EXCEPT ![r].pc = "error"]
            /\ UNCHANGED TAB_RESPONSES_MAP
       ELSE /\ cap' = [cap EXCEPT ![r].pc = "published"]
            /\ TAB_RESPONSES_MAP' =
                  [TAB_RESPONSES_MAP EXCEPT ![ReqTab(r)][1][ReqUrl(r)] =
                      <<ResponseData(cap[r].decoder, cap[r].chunks)>>]
    /\ UNCHANGED <<tabUrl, wire, DNS_DOH_RESOLVER, TAB_ACTION_MAP,
                   TAB_RESPONSES_ENCODING_MAP, VALIDATION_RESULT_MAP, injected, ver>>
    /\ UNCHANGED <<signerVars, worldVars>>

(***************************************************************************)
(* invokeFailure and verifyResponseContent.                                *)
(***************************************************************************)
\* The trust state invokeFailure records.
FailureState(action) ==
    IF action = "doh-failure" THEN "doh-failure" ELSE "untrusted"

\* The files invokeFailure passes to tabs.executeScript.
FailureScripts(action) ==
    IF action = "doh-failure" THEN <<>>
    ELSE IF action = "enforce" THEN <<"src/actions/block.js">>
    ELSE <<"src/actions/warn.js">>

\* A faulty invokeFailure: it runs the script without a tab id, that is in
\* the active tab, here the tab opened last.
InvokeFailureActiveTab(r, action) ==
    LET active == CHOOSE t \in DOMAIN injected : \A u \in DOMAIN injected : u <= t
    IN  /\ VALIDATION_RESULT_MAP' =
              [VALIDATION_RESULT_MAP EXCEPT ![ReqTab(r)] = FailureState(action)]
        /\ injected' = [injected EXCEPT ![active] = @ \o FailureScripts(action)]
        /\ ver' = [ver EXCEPT ![r].pc = "done", ![r].outcome = "failure",
                              ![r].failureAction = action]

\* invokeFailure(tabId, action), ending the evaluation of r.
InvokeFailure(r, action) ==
    /\ VALIDATION_RESULT_MAP' =
          [VALIDATION_RESULT_MAP EXCEPT ![ReqTab(r)] = FailureState(action)]
    /\ injected' = [injected EXCEPT ![ReqTab(r)] = @ \o FailureScripts(action)]
    /\ ver' = [ver EXCEPT ![r].pc = "done", ![r].outcome = "failure",
                          ![r].failureAction = action]

\* A return that records nothing.
ReturnSilently(r, why) ==
    /\ ver' = [ver EXCEPT ![r].pc = "done", ![r].outcome = why]
    /\ UNCHANGED <<VALIDATION_RESULT_MAP, injected>>

\* onCompleted: verifyResponseContent up to `await browser.tabs.get(tabId)`.
\* The event follows the end of the response stream; the filter's onstop may
\* still be awaiting the blob.
Completed(r) ==
    /\ ver[r].pc = "none"
    /\ ~removed[ReqTab(r)]
    /\ cap[r].pc \in {"blob", "published"}
    /\ IF ReqUrl(r) = DNS_DOH_RESOLVER THEN ReturnSilently(r, "doh-response")
       ELSE IF DNS_DOH_RESOLVER = "null" THEN ReturnSilently(r, "disabled")
       ELSE IF TAB_RESPONSES_MAP[ReqTab(r)] = <<>> THEN ReturnSilently(r, "threw")
       ELSE IF ~HasResponse(ReqTab(r), ReqUrl(r)) THEN ReturnSilently(r, "not-captured")
       ELSE /\ ver' = [ver EXCEPT ![r].pc = "tabget"]
            /\ UNCHANGED <<VALIDATION_RESULT_MAP, injected>>
    /\ UNCHANGED <<tabUrl, wire, DNS_DOH_RESOLVER, TAB_ACTION_MAP, TAB_RESPONSES_MAP,
                   TAB_RESPONSES_ENCODING_MAP, cap>>
    /\ UNCHANGED <<signerVars, worldVars>>

\* `await browser.tabs.get(tabId)` settles. It rejects for a removed tab and
\* the evaluation ends there; else the tab object arrives, getHARCDNSPayload
\* starts and awaits validateDohServer(DNS_DOH_RESOLVER).
VerifyTabGot(r) ==
    /\ ver[r].pc = "tabget"
    /\ IF removed[ReqTab(r)]
       THEN ver' = [ver EXCEPT ![r].pc = "done", ![r].outcome = "threw"]
       ELSE ver' = [ver EXCEPT ![r].pc = "dohcheck", ![r].tabUrl = tabUrl[ReqTab(r)],
                               ![r].dnsQueryDomain = DnsQueryDomain(ReqUrl(r)),
                               ![r].resolver = DNS_DOH_RESOLVER]
    /\ UNCHANGED <<tabUrl, wire, DNS_DOH_RESOLVER, TAB_ACTION_MAP, TAB_RESPONSES_MAP,
                   TAB_RESPONSES_ENCODING_MAP, VALIDATION_RESULT_MAP, injected, cap>>
    /\ UNCHANGED <<signerVars, worldVars>>

\* The number of one-second sleeps a sub-resource waits for the main
\* resource's action.
WaitLimit == 10

\* After the wait loop: the action the evaluation goes on with.
ActionAfterWait(r, own) ==
    IF TabResponsesHas(ReqTab(r), ReqUrl(r))
    THEN IF TAB_ACTION_MAP[ReqTab(r)] = "absent"
         THEN "undefined"
         ELSE TAB_ACTION_MAP[ReqTab(r)]
    ELSE own

\* The response headers are scanned and crypto.subtle.importKey is awaited.
ToImport(r, action, key) ==
    ver' = [ver EXCEPT ![r].pc = "import", ![r].action = action, ![r].key = key]

\* A faulty not-deployed branch: it leaves a trusted tab trusted.
IgnoredDomainStateKeepsTrusted(current) ==
    IF current = "absent" THEN "ignored-domain" ELSE current

\* The trust state a tab gets from a resource of a domain without HARC.
IgnoredDomainState(current) ==
    IF current = "absent" THEN "ignored-domain"
    ELSE IF current = "trusted" THEN "trusted-partial"
    ELSE current

\* verifyResponseContent from the result of getHARCDNSPayload up to the next
\* await.
AfterDns(r, payload) ==
    IF payload.action = "null" /\ payload.key = <<>>
    THEN /\ VALIDATION_RESULT_MAP' =
               [VALIDATION_RESULT_MAP EXCEPT ![ReqTab(r)] = IgnoredDomainState(@)]
         /\ ver' = [ver EXCEPT ![r].pc = "done", ![r].outcome = "ignored-domain"]
         /\ UNCHANGED <<TAB_ACTION_MAP, injected>>
    ELSE IF ReqUrl(r) = ver[r].tabUrl
    THEN /\ TAB_ACTION_MAP' = [TAB_ACTION_MAP EXCEPT ![ReqTab(r)] = payload.action]
         /\ ToImport(r, payload.action, payload.key)
         /\ UNCHANGED <<VALIDATION_RESULT_MAP, injected>>
    ELSE /\ IF TAB_ACTION_MAP[ReqTab(r)] # "absent"
            THEN ToImport(r, ActionAfterWait(r, payload.action), payload.key)
            ELSE ver' = [ver EXCEPT ![r].pc = "wait", ![r].i = 0,
                                    ![r].action = payload.action,
                                    ![r].key = payload.key]
         /\ UNCHANGED <<TAB_ACTION_MAP, VALIDATION_RESULT_MAP, injected>>

\* validateDohServer settles: the resolver's host name resolves or not.
VerifyDohChecked(r) ==
    /\ ver[r].pc = "dohcheck"
    /\ \E resolvable \in ValidateDohServer(ver[r].resolver) :
          IF resolvable
          THEN /\ ver' = [ver EXCEPT ![r].pc = "query"]
               /\ UNCHANGED <<TAB_ACTION_MAP, VALIDATION_RESULT_MAP, injected>>
          ELSE AfterDns(r, DohFailure)
    /\ UNCHANGED <<tabUrl, wire, DNS_DOH_RESOLVER, TAB_RESPONSES_MAP,
                   TAB_RESPONSES_ENCODING_MAP, cap>>
    /\ UNCHANGED <<signerVars, worldVars>>

\* new doh.DohResolver(DNS_DOH_RESOLVER).query settles: it throws, or answers
\* with the zone's TXT records. The resolver is the one set at that moment;
\* no query can be sent to null.
VerifyQueried(r) ==
    /\ ver[r].pc = "query"
    /\ \/ AfterDns(r, DohFailure)
       \/ /\ DNS_DOH_RESOLVER # "null"
          /\ AfterDns(r, ParseAnswers(dnsTxt[ver[r].dnsQueryDomain]))
    /\ UNCHANGED <<tabUrl, wire, DNS_DOH_RESOLVER, TAB_RESPONSES_MAP,
                   TAB_RESPONSES_ENCODING_MAP, cap>>
    /\ UNCHANGED <<signerVars, worldVars>>

\* A faulty wait: it goes on sleeping for as long as the tab has no action.
VerifyWaitUnbounded(r) ==
    /\ ver[r].pc = "wait"
    /\ IF TAB_ACTION_MAP[ReqTab(r)] = "absent"
       THEN ver' = [ver EXCEPT ![r].i = (@ + 1) % WaitLimit]
       ELSE ToImport(r, ActionAfterWait(r, ver[r].action), ver[r].key)
    /\ UNCHANGED <<tabUrl, wire, DNS_DOH_RESOLVER, TAB_ACTION_MAP, TAB_RESPONSES_MAP,
                   TAB_RESPONSES_ENCODING_MAP, VALIDATION_RESULT_MAP, injected, cap>>
    /\ UNCHANGED <<signerVars, worldVars>>

\* A one-second sleep of the wait for the main resource's action ends.
VerifyWait(r) ==
    /\ ver[r].pc = "wait"
    /\ IF ver[r].i + 1 < WaitLimit /\ TAB_ACTION_MAP[ReqTab(r)] = "absent"
       THEN ver' = [ver EXCEPT ![r].i = @ + 1]
       ELSE ToImport(r, ActionAfterWait(r, ver[r].action), ver[r].key)
    /\ UNCHANGED <<tabUrl, wire, DNS_DOH_RESOLVER, TAB_ACTION_MAP, TAB_RESPONSES_MAP,
                   TAB_RESPONSES_ENCODING_MAP, VALIDATION_RESULT_MAP, injected, cap>>
    /\ UNCHANGED <<signerVars, worldVars>>

BoolName(b) == IF b THEN "true" ELSE "false"

\* A faulty scan: a digest header makes it forget the signature.
SignatureEncodedUnlessDigest(headers) ==
    IF HasHeader(headers, HARC_HEADER_SIGNATURE) /\ ~HasHeader(headers, HARC_HEADER_DIGEST)
    THEN <<headers[HARC_HEADER_SIGNATURE]>>
    ELSE <<>>

\* The scan of the response headers: signatureEncoded, <<>> standing for
\* null. HARC_HEADER_ALGO and HARC_HEADER_DIGEST are only logged.
SignatureEncoded(headers) ==
    IF HasHeader(headers, HARC_HEADER_SIGNATURE)
    THEN <<headers[HARC_HEADER_SIGNATURE]>>
    ELSE <<>>

\* importKey settles; the checks on key and signature header; the first
\* crypto.subtle.verify, on the blob view, is awaited.
VerifyImported(r) ==
    /\ ver[r].pc = "import"
    /\ LET signatureEncoded == SignatureEncoded(wire[r][1].headers)
           publicKey == ImportPublicKey(ver[r].key)
           t == ReqTab(r)
       IN  IF publicKey = <<>> THEN InvokeFailure(r, ver[r].action)
           ELSE IF signatureEncoded = <<>>
           THEN InvokeFailure(r, ver[r].action)
           ELSE IF ~IsBase64(signatureEncoded[1])
           THEN InvokeFailure(r, ver[r].action)
           ELSE IF ~TabResponsesHas(t, ReqUrl(r))
           THEN ReturnSilently(r, "threw")
           ELSE /\ ver' = [ver EXCEPT
                      ![r].pc = "verifyBlob",
                      ![r].publicKey = publicKey,
                      ![r].signature = <<signatureEncoded[1][2]>>,
                      ![r].data = TabResponses(t)[1][ReqUrl(r)],
                      ![r].blobOk =
                          BoolName(SubtleVerify(publicKey[1],
                                                signatureEncoded[1][2],
                                                TabResponses(t)[1][ReqUrl(r)][1].blob))]
                /\ UNCHANGED <<VALIDATION_RESULT_MAP, injected>>
    /\ UNCHANGED <<tabUrl, wire, DNS_DOH_RESOLVER, TAB_ACTION_MAP, TAB_RESPONSES_MAP,
                   TAB_RESPONSES_ENCODING_MAP, cap>>
    /\ UNCHANGED <<signerVars, worldVars>>

\* tabResponses.delete(url), on the Map the evaluation holds.
TabResponsesDelete(t, url) ==
    IF TAB_RESPONSES_MAP[t] # <<>>
    THEN /\ TAB_RESPONSES_MAP' = [TAB_RESPONSES_MAP EXCEPT ![t][1][url] = <<>>]
         /\ UNCHANGED detached
    ELSE /\ detached' = IF detached[t] = <<>> THEN detached
                        ELSE [detached EXCEPT ![t][1][url] = <<>>]
         /\ UNCHANGED TAB_RESPONSES_MAP

\* A faulty success path: it records trusted whatever the tab's state is.
VerifiedStateOverwrites(current) == "trusted"

\* The trust state a tab gets from a verified resource.
VerifiedState(current) ==
    IF current = "absent" THEN "trusted"
    ELSE IF current = "ignored-domain" THEN "trusted-partial"
    ELSE IF current \notin {"doh-failure", "trusted-partial", "untrusted"} THEN "trusted"
    ELSE current

\* verifyResponseContent from `tabResponses.delete(response.url)` to its end.
Finish(r, signatureVerified) ==
    /\ TabResponsesDelete(ReqTab(r), ReqUrl(r))
    /\ IF signatureVerified
       THEN /\ VALIDATION_RESULT_MAP' =
                  [VALIDATION_RESULT_MAP EXCEPT ![ReqTab(r)] = VerifiedState(@)]
            /\ ver' = [ver EXCEPT ![r].pc = "done", ![r].outcome = "verified"]
            /\ UNCHANGED injected
       ELSE InvokeFailure(r, ver[r].action)

\* What verifyResponseContent does to the tab from the header scan to its
\* end, as a function of what it reads: the response headers, the key of the
\* DNS record, the action, the captured views and the tab's current state.
Verdict(headers, publicKeyDer, action, responseData, current) ==
    LET signatureEncoded == SignatureEncoded(headers)
        publicKey == ImportPublicKey(publicKeyDer)
        failure == [state |-> FailureState(action), scripts |-> FailureScripts(action)]
    IN  IF publicKey = <<>> \/ signatureEncoded = <<>> THEN failure
        ELSE IF ~IsBase64(signatureEncoded[1]) THEN failure
        ELSE IF \/ SubtleVerify(publicKey[1], signatureEncoded[1][2], responseData.blob)
                \/ SubtleVerify(publicKey[1], signatureEncoded[1][2], responseData.ab)
        THEN [state |-> VerifiedState(current), scripts |-> <<>>]
        ELSE failure

\* The verify on the blob view settles; when it failed, the verify on the
\* str2ab view is awaited.
VerifyBlobDone(r) ==
    /\ ver[r].pc = "verifyBlob"
    /\ IF ver[r].blobOk = "true"
       THEN Finish(r, TRUE)
       ELSE /\ ver' = [ver EXCEPT
                  ![r].pc = "verifyAb",
                  ![r].abOk = BoolName(SubtleVerify(ver[r].publicKey[1],
                                                    ver[r].signature[1],
                                                    ver[r].data[1].ab))]
            /\ UNCHANGED <<TAB_RESPONSES_MAP, detached, VALIDATION_RESULT_MAP, injected>>
    /\ UNCHANGED <<tabUrl, wire, DNS_DOH_RESOLVER, TAB_ACTION_MAP,
                   TAB_RESPONSES_ENCODING_MAP, cap>>
    /\ UNCHANGED <<signerVars, upstream, intermediary, dnsTxt, removed, output, reply,
                   calls>>

\* The verify on the str2ab view settles.
VerifyAbDone(r) ==
    /\ ver[r].pc = "verifyAb"
    /\ Finish(r, ver[r].abOk = "true")
    /\ UNCHANGED <<tabUrl, wire, DNS_DOH_RESOLVER, TAB_ACTION_MAP,
                   TAB_RESPONSES_ENCODING_MAP, cap>>
    /\ UNCHANGED <<signerVars, upstream, intermediary, dnsTxt, removed, output, reply,
                   calls>>

\* tabs.onRemoved: clearTabRecords(tabId).
ClearTabRecords(t) ==
    /\ ~removed[t]
    /\ removed' = [removed EXCEPT ![t] = TRUE]
    /\ TAB_ACTION_MAP' = [TAB_ACTION_MAP EXCEPT ![t] = "absent"]
    /\ TAB_RESPONSES_MAP' = [TAB_RESPONSES_MAP EXCEPT ![t] = <<>>]
    /\ detached' = IF TAB_RESPONSES_MAP[t] = <<>> THEN detached
                   ELSE [detached EXCEPT ![t] = TAB_RESPONSES_MAP[t]]
    /\ VALIDATION_RESULT_MAP' = [VALIDATION_RESULT_MAP EXCEPT ![t] = "absent"]
    /\ UNCHANGED <<tabUrl, wire, DNS_DOH_RESOLVER, TAB_RESPONSES_ENCODING_MAP, injected,
                   cap, ver>>
    /\ UNCHANGED <<signerVars, upstream, intermediary, dnsTxt, output, reply, calls>>

(***************************************************************************)
(* The messages of the extension's pages: handleOnMessage, setDohServer.   *)
(***************************************************************************)
\* The payloads of a setDohPreference message: a custom address, a listed
\* choice, "disable", or a choice that is not listed.
Payloads ==
    {[choice |-> "custom", customDohServerAddr |-> a] : a \in CustomAddrs \cup {CustomListed}}
        \cup {[choice |-> c, customDohServerAddr |-> "null"] :
                  c \in DOMAIN DOH_SERVER_CHOICES \cup {"unlisted"}}

\* A faulty setDohServer: it saves the custom address whatever the
\* validation said.
ResolverAfterValidationIgnored(current, addr, validated) == addr

\* setDohServer, choice "custom": DNS_DOH_RESOLVER after the validation.
ResolverAfterValidation(current, addr, validated) ==
    IF validated THEN addr ELSE current

\* A faulty "disable": it keeps the recorded results.
ResultsKept(results) == results

\* VALIDATION_RESULT_MAP.clear()
ResultsCleared(results) == [t \in DOMAIN results |-> "absent"]

\* setDohServer from `DNS_DOH_RESOLVER !== null && (await getBadgeText(...))`
\* on: with a resolver set the badge text is awaited, else the call returns
\* and handleOnMessage answers with its result.
ToBadge(c, payload, success, resolver) ==
    IF resolver # "null"
    THEN /\ calls' = [calls EXCEPT ![c] = [pc |-> "badge", payload |-> <<payload>>,
                                           success |-> success]]
         /\ UNCHANGED reply
    ELSE /\ calls' = [calls EXCEPT ![c] = [pc |-> "done", payload |-> <<payload>>,
                                           success |-> success]]
         /\ reply' = <<[type |-> "setDohPreference", data |-> BoolName(success)]>>

\* A setDohPreference message: handleOnMessage calls setDohServer, which runs
\* up to its first await.
SetDohServer(c) ==
    /\ calls[c].pc = "none"
    /\ \E payload \in Payloads :
          IF payload.choice = "custom"
          THEN /\ calls' = [calls EXCEPT ![c] = [pc |-> "validate",
                                                 payload |-> <<payload>>,
                                                 success |-> TRUE]]
               /\ UNCHANGED <<DNS_DOH_RESOLVER, VALIDATION_RESULT_MAP, reply>>
          ELSE IF payload.choice \in DOMAIN DOH_SERVER_CHOICES
          THEN /\ VALIDATION_RESULT_MAP' =
                     IF payload.choice = "disable"
                     THEN ResultsCleared(VALIDATION_RESULT_MAP)
                     ELSE VALIDATION_RESULT_MAP
               /\ DNS_DOH_RESOLVER' = DOH_SERVER_CHOICES[payload.choice]
               /\ ToBadge(c, payload, TRUE, DOH_SERVER_CHOICES[payload.choice])
          ELSE /\ DNS_DOH_RESOLVER' = DOH_SERVER_CHOICES["cloudflare-mozilla"]
               /\ ToBadge(c, payload, FALSE, DOH_SERVER_CHOICES["cloudflare-mozilla"])
               /\ UNCHANGED VALIDATION_RESULT_MAP
    /\ UNCHANGED <<tabUrl, wire, TAB_ACTION_MAP, TAB_RESPONSES_MAP,
                   TAB_RESPONSES_ENCODING_MAP, injected, cap, ver>>
    /\ UNCHANGED <<signerVars, upstream, intermediary, dnsTxt, removed, output, detached>>

\* validateDohServer(payload.customDohServerAddr) settles in setDohServer.
SetDohValidated(c) ==
    /\ calls[c].pc = "validate"
    /\ LET payload == calls[c].payload[1]
       IN  \E validated \in ValidateDohServer(payload.customDohServerAddr) :
              /\ DNS_DOH_RESOLVER' =
                    ResolverAfterValidation(DNS_DOH_RESOLVER, payload.customDohServerAddr,
                                            validated)
              /\ ToBadge(c, payload, validated,
                         ResolverAfterValidation(DNS_DOH_RESOLVER,
                                                 payload.customDohServerAddr, validated))
    /\ UNCHANGED <<tabUrl, wire, TAB_ACTION_MAP, TAB_RESPONSES_MAP,
                   TAB_RESPONSES_ENCODING_MAP, VALIDATION_RESULT_MAP, injected, cap, ver>>
    /\ UNCHANGED <<signerVars, upstream, intermediary, dnsTxt, removed, output, detached>>

\* getBadgeText settles; setDohServer returns and handleOnMessage answers.
SetDohBadge(c) ==
    /\ calls[c].pc = "badge"
    /\ calls' = [calls EXCEPT ![c].pc = "done"]
    /\ reply' = <<[type |-> "setDohPreference", data |-> BoolName(calls[c].success)]>>
    /\ UNCHANGED clientVars
    /\ UNCHANGED <<signerVars, upstream, intermediary, dnsTxt, removed, output, detached>>

\* VALIDATION_RESULT_MAP.get(tabId)
ValidationResultGet(t) ==
    IF VALIDATION_RESULT_MAP[t] = "absent" THEN "undefined" ELSE VALIDATION_RESULT_MAP[t]

\* A harcValidationResult message for tab t.
HarcValidationResult(t) ==
    /\ reply' = <<[type |-> "harcValidationResult", data |-> ValidationResultGet(t)]>>
    /\ UNCHANGED clientVars
    /\ UNCHANGED <<signerVars, upstream, intermediary, dnsTxt, removed, output, detached,
                   calls>>

\* handleOnMessage, getDohPreference: the data it answers with. The choice
\* is the key of DOH_SERVER_CHOICES whose value is the resolver (the values
\* are distinct), else "custom" with the resolver as customDohServerAddr.
DohPreference(resolver) ==
    IF \E c \in DOMAIN DOH_SERVER_CHOICES : DOH_SERVER_CHOICES[c] = resolver
    THEN [choice |-> CHOOSE c \in DOMAIN DOH_SERVER_CHOICES :
                         DOH_SERVER_CHOICES[c] = resolver,
          customDohServerAddr |-> "null"]
    ELSE [choice |-> "custom", customDohServerAddr |-> resolver]

\* A getDohPreference message.
GetDohPreference ==
    /\ reply' = <<[type |-> "getDohPreference", data |-> DohPreference(DNS_DOH_RESOLVER)]>>
    /\ UNCHANGED clientVars
    /\ UNCHANGED <<signerVars, upstream, intermediary, dnsTxt, removed, output, detached,
                   calls>>

(***************************************************************************)
(* Specifications.                                                         *)
(***************************************************************************)
\* An origin's response.
Origin(contentType, body) ==
    [statusCode |-> 200, headers |-> ("content-type" :> contentType), body |-> body]

SignerStart ==
    /\ proc = "start"
    /\ exitCode = <<>>
    /\ harcSigningKey = "none"
    /\ proxyRes = <<>>
    /\ reqState = "idle"
    /\ downstream = <<>>
    /\ rejection = "none"

\* The signer is up, with key K1, with or without --digestHeader.
SignerServing ==
    /\ keyFile = "valid"
    /\ args \in [port : {5000}, digestHeader : BOOLEAN]
    /\ proc = "listening"
    /\ exitCode = <<>>
    /\ harcSigningKey = "K1"
    /\ proxyRes = <<>>
    /\ reqState = "idle"
    /\ downstream = <<>>
    /\ rejection = "none"

\* The extension after entrypoint(), in a browser with fresh tabs.
ClientStart ==
    /\ tabUrl = [t \in Tabs |-> BlankUrl]
    /\ wire = [r \in Requests |-> <<>>]
    /\ DNS_DOH_RESOLVER = DefaultResolver
    /\ TAB_ACTION_MAP = [t \in Tabs |-> "absent"]
    /\ TAB_RESPONSES_MAP = [t \in Tabs |-> <<>>]
    /\ TAB_RESPONSES_ENCODING_MAP = [r \in Requests |-> "absent"]
    /\ VALIDATION_RESULT_MAP = [t \in Tabs |-> "absent"]
    /\ injected = [t \in Tabs |-> <<>>]
    /\ cap = [r \in Requests |-> CapIdle]
    /\ ver = [r \in Requests |-> VerIdle]
    /\ removed = [t \in Tabs |-> FALSE]
    /\ output = [r \in Requests |-> FilterIdle]
    /\ reply = <<>>
    /\ detached = [t \in Tabs |-> <<>>]
    /\ calls = [c \in Calls |-> CallIdle]

\* The signing server alone: start-up and one proxied request.
InitSigner ==
    /\ keyFile \in KeyFiles
    /\ args \in [port : Ports, digestHeader : BOOLEAN]
    /\ SignerStart
    /\ upstream = [r \in Requests |-> Origin(CT_TextHtml, <<>>)]
    /\ intermediary = [r \in Requests |-> Honest]
    /\ dnsTxt = [q \in QueryDomains |-> <<>>]
    /\ ClientStart

NextSigner ==
    \/ Main
    \/ ImportSettled
    \/ ProxyRes
    \/ ProxyResEnd

SpecSigner == InitSigner /\ [][NextSigner]_vars

\* One document from origin to tab: every body, every single-bit change on
\* the way, under a HARC record with the signer's key.
PathContentTypes == {CT_TextHtml, CT_TextHtmlUtf8, CT_TextPlainUtf8Upper, CT_AppJson}

InitPath ==
    /\ SignerServing
    /\ \E ct \in PathContentTypes, body \in Bodies :
          /\ upstream = [r \in Requests |-> Origin(ct, body)]
          /\ \E op \in {Honest} \cup BitFlips(Len(body)) :
                intermediary = [r \in Requests |-> op]
    /\ \E txt \in {TXT_Enforce_K1, TXT_Warn_K1} :
          dnsTxt = [q \in QueryDomains |-> <<txt>>]
    /\ ClientStart

StepPath(r) ==
    \/ BeforeRequest(r)
    \/ CaptureTabGot(r)
    \/ HeadersReceived(r)
    \/ FilterOnStart(r)
    \/ FilterOnData(r)
    \/ FilterOnStop(r)
    \/ FilterPublished(r)
    \/ Completed(r)
    \/ VerifyTabGot(r)
    \/ VerifyDohChecked(r)
    \/ VerifyQueried(r)
    \/ VerifyImported(r)
    \/ VerifyBlobDone(r)
    \/ VerifyAbDone(r)

NextPath == StepPath(MainRequest)

SpecPath == InitPath /\ [][NextPath]_vars

\* One document of a domain whose zone answers the TXT query in any of the
\* ways of TxtAnswers.
TXT_KeyOnly == <<" ", "SPKI_K1", " ">>
TXT_EnforceUpper == <<" ","E","n","F","O","R","C","E"," ",";"," ","SPKI_K1">>
TXT_Block == <<"b","l","o","c","k",";","SPKI_K1">>
TXT_ThreeFields == <<"e","n","f","o","r","c","e",";","SPKI_K1",";","SPKI_K2">>
TXT_EmptyAction == <<";","SPKI_K1">>
TXT_EmptyKey == <<"w","a","r","n",";">>
TXT_Empty == <<>>
TXT_Warn_K2 == <<"w","a","r","n",";","SPKI_K2">>

TxtAnswers ==
    {<<>>, <<TXT_Enforce_K1>>, <<TXT_Warn_K1>>, <<TXT_KeyOnly>>, <<TXT_EnforceUpper>>,
     <<TXT_Block>>, <<TXT_ThreeFields>>, <<TXT_EmptyAction>>, <<TXT_EmptyKey>>,
     <<TXT_Empty>>, <<TXT_Warn_K1, TXT_Enforce_K1>>, <<TXT_Block, TXT_Enforce_K1>>,
     <<TXT_KeyOnly, TXT_Block>>, <<TXT_Warn_K2>>}

InitDns ==
    /\ SignerServing
    /\ upstream = [r \in Requests |-> Origin(CT_TextHtml, <<65>>)]
    /\ intermediary = [r \in Requests |-> Honest]
    /\ \E answers \in TxtAnswers :
          dnsTxt = [q \in QueryDomains |-> answers]
    /\ ClientStart

NextDns == StepPath(MainRequest)

SpecDns == InitDns /\ [][NextDns]_vars

\* A navigation: the main document and an image of another domain, each
\* domain with or without a HARC record, each response tampered with or not.
NavigationRequests == {MainRequest, SubRequest}

InitNavigation ==
    /\ SignerServing
    /\ \E ct \in {CT_ImagePng, CT_TextHtml} :
          upstream = [r \in Requests |->
                         IF r \in {SubRequest, DuplicateRequest}
                         THEN Origin(ct, <<65>>)
                         ELSE Origin(CT_TextHtml, <<65>>)]
    /\ \E ops \in [NavigationRequests -> {Honest, <<1, 0>>}] :
          intermediary = [r \in Requests |->
                             IF r \in NavigationRequests THEN ops[r] ELSE Honest]
    /\ \E txt \in [{DnsQueryDomain(ReqUrl(r)) : r \in NavigationRequests} ->
                        {<<>>, <<TXT_Enforce_K1>>, <<TXT_Warn_K1>>}] :
          dnsTxt = [q \in QueryDomains |-> IF q \in DOMAIN txt THEN txt[q] ELSE <<>>]
    /\ ClientStart

Init == InitNavigation

\* The document of request m has started to arrive in its tab.
DocumentArriving(m) == cap[m].pc \in {"data", "blob", "published"}

\* The browser sends request r, the image once the document that holds it
\* arrives: onBeforeRequest.
SendNavigationRequest(r) ==
    /\ r = SubRequest => DocumentArriving(MainRequest)
    /\ BeforeRequest(r)

Step(r) ==
    \/ SendNavigationRequest(r)
    \/ CaptureTabGot(r)
    \/ HeadersReceived(r)
    \/ FilterOnStart(r)
    \/ FilterOnData(r)
    \/ FilterOnStop(r)
    \/ FilterPublished(r)
    \/ Completed(r)
    \/ VerifyTabGot(r)
    \/ VerifyDohChecked(r)
    \/ VerifyQueried(r)
    \/ VerifyWait(r)
    \/ VerifyImported(r)
    \/ VerifyBlobDone(r)
    \/ VerifyAbDone(r)

Next == \E r \in NavigationRequests : Step(r)

Spec == Init /\ [][Next]_vars

\* The steps of the evaluation of request r: the promises it awaits settle
\* and the timers of its sleeps fire.
Evaluate(r) ==
    \/ VerifyTabGot(r)
    \/ VerifyDohChecked(r)
    \/ VerifyQueried(r)
    \/ VerifyWait(r)
    \/ VerifyImported(r)
    \/ VerifyBlobDone(r)
    \/ VerifyAbDone(r)

\* A navigation whose image, changed in transit or not, is of a domain with a
\* record, the document's domain with or without one, in a browser whose
\* promises settle and whose timers fire.
InitLive ==
    /\ SignerServing
    /\ ~args.digestHeader
    /\ upstream = [r \in Requests |-> Origin(CT_TextHtml, <<65>>)]
    /\ \E op \in {Honest, <<1, 0>>} :
          intermediary = [r \in Requests |-> IF r = SubRequest THEN op ELSE Honest]
    /\ \E txt \in {<<>>, <<TXT_Warn_K1>>} :
          dnsTxt = [q \in QueryDomains |->
                       IF q = DnsQueryDomain(ReqUrl(MainRequest)) THEN txt
                       ELSE <<TXT_Warn_K1>>]
    /\ ClientStart

NextLive == \E r \in NavigationRequests : Step(r)

SpecLive ==
    /\ InitLive
    /\ [][NextLive]_vars
    /\ \A r \in NavigationRequests : WF_vars(Evaluate(r))

\* A tab over time: a document of www.a.example; when its evaluation is over,
\* a navigation to b.example, whose page requests one image twice.
TXT_Answer ==
    [q \in QueryDomains |->
        IF q = DnsQueryDomain(ReqUrl(MainRequest)) THEN <<TXT_Enforce_K1>>
        ELSE <<TXT_Warn_K1>>]

InitTab ==
    /\ SignerServing
    /\ ~args.digestHeader
    /\ upstream = [r \in Requests |-> Origin(CT_TextHtml, <<65>>)]
    /\ intermediary = [r \in Requests |-> IF r = SubRequest THEN <<1, 0>> ELSE Honest]
    /\ dnsTxt = TXT_Answer
    /\ ClientStart

\* When the browser sends request r.
Requested(r) ==
    IF r = MainRequest THEN TRUE
    ELSE IF r = NextMainRequest THEN ver[MainRequest].pc = "done"
    ELSE DocumentArriving(NextMainRequest)

\* The browser sends request r: onBeforeRequest.
SendRequest(r) == Requested(r) /\ BeforeRequest(r)

\* What follows onBeforeRequest for request r.
Proceed(r) ==
    \/ CaptureTabGot(r)
    \/ HeadersReceived(r)
    \/ FilterOnStart(r)
    \/ FilterOnData(r)
    \/ FilterOnStop(r)
    \/ FilterPublished(r)
    \/ Completed(r)
    \/ VerifyTabGot(r)
    \/ VerifyDohChecked(r)
    \/ VerifyQueried(r)
    \/ VerifyWait(r)
    \/ VerifyImported(r)
    \/ VerifyBlobDone(r)
    \/ VerifyAbDone(r)

StepTab(r) == SendRequest(r) \/ Proceed(r)

NextTab == \E r \in Requests : StepTab(r)

SpecTab == InitTab /\ [][NextTab]_vars

\* A navigation whose tab may be closed at any moment.
StepClose(r) == Step(r)

NextClose ==
    \/ \E r \in NavigationRequests : StepClose(r)
    \/ \E t \in Tabs : ClearTabRecords(t)

SpecClose == Init /\ [][NextClose]_vars

\* One document of a domain with a record, tampered with or not, while the
\* options page sets the DoH preference and the popup asks for the result.
InitOptions ==
    /\ SignerServing
    /\ ~args.digestHeader
    /\ upstream = [r \in Requests |-> Origin(CT_TextHtml, <<65>>)]
    /\ \E op \in {Honest, <<1, 0>>} : intermediary = [r \in Requests |-> op]
    /\ dnsTxt = [q \in QueryDomains |-> <<TXT_Warn_K1>>]
    /\ ClientStart

NextOptions ==
    \/ StepPath(MainRequest)
    \/ \E c \in Calls : SetDohServer(c) \/ SetDohValidated(c) \/ SetDohBadge(c)
    \/ \E t \in Tabs : HarcValidationResult(t)
    \/ GetDohPreference

SpecOptions == InitOptions /\ [][NextOptions]_vars

\* Many tabs, opened one after the other and left open, each loading the
\* document of MainRequest over a DoH server that answers. The limit the
\* earlier versions of the verifier put on VALIDATION_RESULT_MAP's size:
VALIDATION_RESULT_MAP_LIMIT == 512

ManyTabs == 1..(VALIDATION_RESULT_MAP_LIMIT + 1)

InitTable ==
    /\ SignerServing
    /\ ~args.digestHeader
    /\ upstream = [r \in Requests |-> Origin(CT_TextHtml, <<65>>)]
    /\ \E op \in {Honest, <<1, 0>>} : intermediary = [r \in Requests |-> op]
    /\ \E answers \in {<<>>, <<TXT_Warn_K1>>, <<TXT_Enforce_K1>>} :
          dnsTxt = [q \in QueryDomains |-> answers]
    /\ tabUrl = [t \in ManyTabs |-> BlankUrl]
    /\ wire = [r \in Requests |-> <<>>]
    /\ DNS_DOH_RESOLVER = DefaultResolver
    /\ TAB_ACTION_MAP = [t \in ManyTabs |-> "absent"]
    /\ TAB_RESPONSES_MAP = [t \in ManyTabs |-> <<>>]
    /\ TAB_RESPONSES_ENCODING_MAP = [r \in Requests |-> "absent"]
    /\ VALIDATION_RESULT_MAP = [t \in ManyTabs |-> "absent"]
    /\ injected = [t \in ManyTabs |-> <<>>]
    /\ cap = [r \in Requests |-> CapIdle]
    /\ ver = [r \in Requests |-> VerIdle]
    /\ removed = [t \in Tabs |-> FALSE]
    /\ output = [r \in Requests |-> FilterIdle]
    /\ reply = <<>>
    /\ detached = [t \in Tabs |-> <<>>]
    /\ calls = [c \in Calls |-> CallIdle]

\* The document of MainRequest is loaded in the fresh tab t, from
\* onBeforeRequest to the end of verifyResponseContent, the capture being
\* published before onCompleted.
DocumentLoaded(t) ==
    /\ tabUrl[t] = BlankUrl
    /\ IF t = 1 THEN TRUE ELSE tabUrl[t - 1] # BlankUrl
    /\ LET url == ReqUrl(MainRequest)
           response == Delivered(upstream[MainRequest], harcSigningKey,
                                 args.digestHeader, intermediary[MainRequest])
           data == ResponseData(ResponseEncoding(response.headers), <<response.body>>)
           payload == ParseAnswers(dnsTxt[DnsQueryDomain(url)])
           deployed == payload # NotDeployed
           verdict == Verdict(response.headers, payload.key, payload.action, data,
                              VALIDATION_RESULT_MAP[t])
           verifies == /\ deployed
                       /\ ImportPublicKey(payload.key) # <<>>
                       /\ SignatureEncoded(response.headers) # <<>>
                       /\ IsBase64(SignatureEncoded(response.headers)[1])
       IN  /\ tabUrl' = [tabUrl EXCEPT ![t] = url]
           /\ TAB_RESPONSES_MAP' =
                 [TAB_RESPONSES_MAP EXCEPT ![t] =
                     <<[EmptyResponses EXCEPT ![url] =
                           IF verifies THEN <<>> ELSE <<data>>]>>]
           /\ TAB_ACTION_MAP' =
                 IF deployed THEN [TAB_ACTION_MAP EXCEPT ![t] = payload.action]
                 ELSE TAB_ACTION_MAP
           /\ VALIDATION_RESULT_MAP' =
                 [VALIDATION_RESULT_MAP EXCEPT ![t] =
                     IF deployed THEN verdict.state ELSE IgnoredDomainState(@)]
           /\ injected' =
                 [injected EXCEPT ![t] = IF deployed THEN @ \o verdict.scripts ELSE @]
    /\ UNCHANGED <<wire, DNS_DOH_RESOLVER, TAB_RESPONSES_ENCODING_MAP, cap, ver>>
    /\ UNCHANGED <<signerVars, worldVars>>

NextTable == \E t \in ManyTabs : DocumentLoaded(t)

SpecTable == InitTable /\ [][NextTable]_vars

\* Two tabs: a navigation in the first, evaluated step by step, while the
\* second loads a document; either tab may be closed at any moment.
OtherTab == 2
TwoTabs == Tabs \cup {OtherTab}

InitTwoTabs ==
    /\ SignerServing
    /\ ~args.digestHeader
    /\ upstream = [r \in Requests |-> Origin(CT_TextHtml, <<65>>)]
    /\ \E op \in {Honest, <<1, 0>>} : intermediary = [r \in Requests |-> op]
    /\ \E answers \in {<<>>, <<TXT_Enforce_K1>>} :
          dnsTxt = [q \in QueryDomains |-> answers]
    /\ tabUrl = [t \in TwoTabs |-> BlankUrl]
    /\ wire = [r \in Requests |-> <<>>]
    /\ DNS_DOH_RESOLVER = DefaultResolver
    /\ TAB_ACTION_MAP = [t \in TwoTabs |-> "absent"]
    /\ TAB_RESPONSES_MAP = [t \in TwoTabs |-> <<>>]
    /\ TAB_RESPONSES_ENCODING_MAP = [r \in Requests |-> "absent"]
    /\ VALIDATION_RESULT_MAP = [t \in TwoTabs |-> "absent"]
    /\ injected = [t \in TwoTabs |-> <<>>]
    /\ cap = [r \in Requests |-> CapIdle]
    /\ ver = [r \in Requests |-> VerIdle]
    /\ removed = [t \in TwoTabs |-> FALSE]
    /\ output = [r \in Requests |-> FilterIdle]
    /\ reply = <<>>
    /\ detached = [t \in TwoTabs |-> <<>>]
    /\ calls = [c \in Calls |-> CallIdle]

StepTwoTabs(r) == Step(r)

NextTwoTabs ==
    \/ \E r \in NavigationRequests : StepTwoTabs(r)
    \/ DocumentLoaded(OtherTab)
    \/ \E t \in TwoTabs : ClearTabRecords(t)

SpecTwoTabs == InitTwoTabs /\ [][NextTwoTabs]_vars

(***************************************************************************)
(* Properties of the signing server.                                       *)
(***************************************************************************)
\* The request has been answered: the response the client received.
Answered == reqState = "answered"
Forwarded == downstream[1]
UpstreamContentType ==
    IF HasHeader(proxyRes[1].headers, "content-type")
    THEN proxyRes[1].headers["content-type"]
    ELSE S_Dash

\* C5: the forwarded response carries X-ARC-SIGNATURE if and only if the
\* upstream content type passes the signer's eligibility test, also when the
\* upstream response itself carried such a header.
C5_SignatureHeaderIffEligible ==
    Answered =>
        (HasHeader(Forwarded.headers, HARC_HEADER_SIGNATURE)
            <=> ShouldSign(ToLowerCase(UpstreamContentType)))

\* C6: for every signed response, the bytes handed to subtle.sign are the
\* bytes written downstream by response.end(content, encoding).
C6_SignedBytesAreSentBytes ==
    (Answered /\ Forwarded.signature # <<>>) =>
        Forwarded.signature[1].msg = Forwarded.body

\* C7: when decompression, digest or signing fails, the client still receives
\* an answer, with a 5xx status: no request is left unanswered.
C7_FailureAnswered5xx ==
    /\ reqState # "unanswered"
    /\ rejection # "none" => (downstream # <<>> /\ Forwarded.statusCode >= 500)

\* C8: the proxy listens only with a key that importSigningKey resolved with;
\* when reading, decoding or importing the key throws or rejects, the process
\* has exited with status 1 and has never listened or handled a request.
C8_ListensOnlyWithImportedKey ==
    /\ (proc \in {"listening", "crashed"} \/ reqState # "idle") =>
          (keyFile = "valid" /\ harcSigningKey \in SigningKeys)
    /\ (keyFile # "valid" /\ proc \notin {"start", "importing"}) =>
          (proc = "exited" /\ exitCode = <<1>>)
    /\ proc = "importing" => keyFile \in {"notPkcs8", "valid"}

\* C8 witness: the key file held no PKCS8 key, importKey rejected and the
\* process exited with status 1.
C8_Witness ==
    /\ keyFile = "notPkcs8"
    /\ proc = "exited"
    /\ exitCode = <<1>>

\* C9: a forwarded Content-Length equals the number of body bytes written, and
\* no Content-Encoding header is forwarded.
C9_ContentLengthIsBytesWritten ==
    Answered =>
        /\ ~HasHeader(Forwarded.headers, "content-encoding")
        /\ HasHeader(Forwarded.headers, "content-length") =>
              Forwarded.headers["content-length"] = Len(Forwarded.body)

\* The media type of a Content-Type value: lower case, parameters dropped.
RECURSIVE BeforeSemicolon(_)
BeforeSemicolon(s) ==
    IF s = <<>> \/ Head(s) = ";" THEN <<>>
    ELSE <<Head(s)>> \o BeforeSemicolon(Tail(s))

RECURSIVE TrimEnd(_)
TrimEnd(s) ==
    IF s # <<>> /\ s[Len(s)] = " " THEN TrimEnd(SubSeq(s, 1, Len(s) - 1)) ELSE s

MediaType(contentType) == TrimEnd(ToLowerCase(BeforeSemicolon(contentType)))

EligibleMediaType(contentType) ==
    \/ StartsWith(MediaType(contentType), S_TextSlash)
    \/ MediaType(contentType) \in APP_CONTENT_TYPE_TO_SIGN

\* C10: the signer signs a response exactly when its media type (lower case,
\* parameters ignored) starts with "text/" or is one of the listed
\* application types.
C10_SignsExactlyEligibleMediaTypes ==
    Answered =>
        ((Forwarded.signature # <<>>) <=> EligibleMediaType(UpstreamContentType))

(***************************************************************************)
(* Properties of the verifier.                                             *)
(***************************************************************************)
MainTab == ReqTab(MainRequest)

\* The main document's domain publishes `enforce;<key of the signer>`.
MainEnforced == dnsTxt[DnsQueryDomain(ReqUrl(MainRequest))] = <<TXT_Enforce_K1>>

\* What the signer sent for request r, and what it signed.
Sent(r) == ServeEnd(upstream[r], harcSigningKey, args.digestHeader, "none")

\* The body delivered for request r is not the body the signer sent.
Tampered(r) == Tamper(Sent(r).body, intermediary[r]) # Sent(r).body

\* The evaluation of request r has ended.
Ended(r) == ver[r].pc = "done"

\* The evaluation of request r got the domain's record from the resolver.
RecordRetrieved(r) == ver[r].failureAction # "doh-failure"

\* C1: under an `enforce` record and a main-document body changed in transit,
\* whenever the evaluation of the document has ended (in whatever order onstop
\* published the capture and onCompleted ran), the tab is untrusted and the
\* block script is injected.
C1_TamperedMainDocumentBlocked ==
    (MainEnforced /\ Tampered(MainRequest) /\ Ended(MainRequest)
        /\ RecordRetrieved(MainRequest)) =>
        /\ VALIDATION_RESULT_MAP[MainTab] = "untrusted"
        /\ injected[MainTab] = <<"src/actions/block.js">>

\* The views published for request r.
Captured(r) == TAB_RESPONSES_MAP[ReqTab(r)][1][ReqUrl(r)][1]

\* C2: on an unmodified path, the bytes the signer signed are the blob view or
\* the str2ab view the client captured, and an evaluation that got the
\* domain's record ends with the tab trusted.
C2_SignedBytesAreACapturedView ==
    (~Tampered(MainRequest) /\ Sent(MainRequest).signature # <<>>) =>
        /\ HasResponse(MainTab, ReqUrl(MainRequest)) =>
              \/ Sent(MainRequest).signature[1].msg = Captured(MainRequest).blob
              \/ Sent(MainRequest).signature[1].msg = Captured(MainRequest).ab
        /\ (Ended(MainRequest) /\ RecordRetrieved(MainRequest)
                /\ ver[MainRequest].outcome # "not-captured") =>
              VALIDATION_RESULT_MAP[MainTab] = "trusted"

\* C3: when the delivered body differs in one bit from the body the signer
\* sent, neither the verify on the blob view nor the one on the str2ab view
\* succeeds, and the resource does not end as verified.
C3_BitFlipFailsBothViews ==
    Tampered(MainRequest) =>
        /\ ver[MainRequest].blobOk # "true"
        /\ ver[MainRequest].abOk # "true"
        /\ ver[MainRequest].outcome # "verified"

\* The evaluation of request r takes its last step.
Ends(r) == ver[r].pc # "done" /\ ver'[r].pc = "done"

\* C4: an evaluation lifts the tab's state to trusted or trusted-partial only
\* in the step that follows a verify that returned true, on the blob view or,
\* after the blob view failed, on the str2ab view; and the step that follows a
\* failed verify on both views is invokeFailure and leaves the tab untrusted.
C4_TrustedOnlyAfterVerify ==
    [][\A r \in Requests :
          /\ ( /\ Ends(r)
               /\ VALIDATION_RESULT_MAP'[ReqTab(r)] # VALIDATION_RESULT_MAP[ReqTab(r)]
               /\ VALIDATION_RESULT_MAP'[ReqTab(r)] \in {"trusted", "trusted-partial"}
               /\ ver'[r].outcome = "verified" ) =>
                \/ ver[r].pc = "verifyBlob" /\ ver[r].blobOk = "true"
                \/ ver[r].pc = "verifyAb" /\ ver[r].blobOk = "false"
                                          /\ ver[r].abOk = "true"
          /\ ( /\ Ends(r)
               /\ ver[r].pc = "verifyAb"
               /\ ver[r].abOk = "false" ) =>
                /\ ver'[r].outcome = "failure"
                /\ VALIDATION_RESULT_MAP'[ReqTab(r)] = "untrusted"
    ]_vars

\* The header maps that differ from `headers` at most in X-ARC-DIGEST.
WithoutHeader(headers, name) == [k \in (DOMAIN headers) \ {name} |-> headers[k]]

DigestValues == {Base64(SubtleDigest(<<>>)), Base64(SubtleDigest(<<65>>)), <<"-">>}

DigestVariants(headers) ==
    {WithoutHeader(headers, HARC_HEADER_DIGEST)}
        \cup {SetHeader(headers, HARC_HEADER_DIGEST, d) : d \in DigestValues}

\* The views the evaluation of r took from the capture, if it has.
DataRead(r) ==
    IF ver[r].data = <<>> THEN [ab |-> <<>>, blob |-> <<>>] ELSE ver[r].data[1]

\* C11: the step that ends an evaluation after the header scan leaves the tab
\* in the state, and injects the scripts, that the evaluation would have with
\* the X-ARC-DIGEST header absent or present with any value, all else equal.
C11_DigestHeaderDoesNotInterfere ==
    [][\A r \in Requests :
          ( /\ Ends(r)
            /\ ver[r].pc \in {"import", "verifyBlob", "verifyAb"}
            /\ ver'[r].outcome \in {"failure", "verified"} ) =>
              \A h \in DigestVariants(wire[r][1].headers) :
                  LET v == Verdict(h, ver[r].key, ver[r].action, DataRead(r),
                                   VALIDATION_RESULT_MAP[ReqTab(r)])
                  IN  /\ VALIDATION_RESULT_MAP'[ReqTab(r)] = v.state
                      /\ injected'[ReqTab(r)] = injected[ReqTab(r)] \o v.scripts
    ]_vars

\* C11 witness: a response that carried X-ARC-DIGEST ended as verified, and
\* one that carried it ended in a failure.
C11_Witness ==
    /\ ver[MainRequest].outcome = "verified"
    /\ HasHeader(wire[MainRequest][1].headers, HARC_HEADER_DIGEST)
    /\ ver[SubRequest].outcome = "failure"
    /\ HasHeader(wire[SubRequest][1].headers, HARC_HEADER_DIGEST)

\* The evaluation of request r has got the result of getHARCDNSPayload.
PastDns(r) ==
    \/ ver[r].pc \in {"wait", "import", "verifyBlob", "verifyAb"}
    \/ Ended(r) /\ ver[r].outcome \in {"ignored-domain", "failure", "verified"}

\* The record a list of TXT answers stands for: its first answer, by the
\* number of its semicolons.
Semicolons(s) == {i \in 1..Len(s) : s[i] = ";"}

RecordOf(answers) ==
    IF answers = <<>> THEN NotDeployed
    ELSE LET s == answers[1]
             at == CHOOSE i \in Semicolons(s) : TRUE
             action == ToLowerCase(Trim(SubSeq(s, 1, at - 1)))
             key == Trim(SubSeq(s, at + 1, Len(s)))
         IN  IF Cardinality(Semicolons(s)) = 0
             THEN [action |-> "warn", key |-> <<Trim(s)>>]
             ELSE IF Cardinality(Semicolons(s)) # 1 THEN NotDeployed
             ELSE IF action = S_Warn THEN [action |-> "warn", key |-> <<key>>]
             ELSE IF action = S_Enforce THEN [action |-> "enforce", key |-> <<key>>]
             ELSE NotDeployed

\* C12: once the TXT query of the main document was answered, the evaluation
\* goes on with the record of the first answer: one field is the key of a
\* `warn` record, two fields are action and key when the action is warn or
\* enforce, everything else (and no answer) is NotDeployed; a key always
\* comes with the action warn or enforce.
C12_FirstTxtAnswerParsed ==
    (PastDns(MainRequest) /\ ver[MainRequest].action # "doh-failure") =>
        /\ ver[MainRequest].action = RecordOf(dnsTxt[ver[MainRequest].dnsQueryDomain]).action
        /\ ver[MainRequest].key = RecordOf(dnsTxt[ver[MainRequest].dnsQueryDomain]).key
        /\ ver[MainRequest].outcome = "ignored-domain"
              <=> RecordOf(dnsTxt[ver[MainRequest].dnsQueryDomain]) = NotDeployed
        /\ ver[MainRequest].key # <<>> => ver[MainRequest].action \in {"warn", "enforce"}

\* C12 witness: a record of three fields was answered and the evaluation
\* ended with the domain ignored.
C12_Witness ==
    /\ dnsTxt[DnsQueryDomain(ReqUrl(MainRequest))] = <<TXT_ThreeFields>>
    /\ ver[MainRequest].outcome = "ignored-domain"

\* The TXT query name of a URL: `<subdomain>._arc.<domain>`, without the
\* subdomain part when the host has none.
QueryNameOf(url) ==
    IF PslParse(url).subdomain = <<>>
    THEN <<HARC_DNS_SUBDOMAIN, PslParse(url).domain>>
    ELSE <<PslParse(url).subdomain[1], HARC_DNS_SUBDOMAIN, PslParse(url).domain>>

\* C13: the name getHARCDNSPayload queries for a resource is
\* `<subdomain>._arc.<domain>`, and `_arc.<domain>` for a host without
\* subdomain.
C13_QueryNameOmitsEmptySubdomain ==
    \A r \in Requests :
        ver[r].dnsQueryDomain # <<>> => ver[r].dnsQueryDomain = QueryNameOf(ReqUrl(r))

\* C17: no evaluation reaches the read of its capture entry (the argument of
\* crypto.subtle.verify) with the entry missing.
C17_VerifyReadsPresentCapture ==
    \A r \in Requests : ver[r].outcome # "threw"

\* The main document of the navigation the sub-resources belong to has set
\* the tab's action.
ActionRecorded(m) ==
    \/ ver[m].pc \in {"import", "verifyBlob", "verifyAb"}
    \/ Ended(m) /\ ver[m].outcome \in {"failure", "verified"}

\* C19: when the evaluation of a sub-resource calls invokeFailure with the
\* action of a record, the main document of its navigation has recorded its
\* action in TAB_ACTION_MAP and that action is the one passed.
C19_SubResourceUsesNavigationAction ==
    [][\A r \in {SubRequest, DuplicateRequest} :
          ( /\ Ends(r)
            /\ ver'[r].outcome = "failure"
            /\ ver'[r].failureAction \in {"warn", "enforce"} ) =>
              /\ ActionRecorded(NextMainRequest)
              /\ ver'[r].failureAction = ver[NextMainRequest].action
    ]_vars

\* getHARCDNSPayload returned DohFailure to the evaluation of request r, which
\* is about to settle the import of the (null) key.
DohFailed(r) == ver[r].pc = "import" /\ ver[r].key = <<>>

\* C14: an evaluation whose DNS resolution returned DohFailure ends with the
\* tab in doh-failure and injects no script, for the main document and for a
\* sub-resource alike.
C14_DohFailureRecorded ==
    [][\A r \in Requests :
          (DohFailed(r) /\ Ends(r)) =>
              /\ VALIDATION_RESULT_MAP'[ReqTab(r)] = "doh-failure"
              /\ injected'[ReqTab(r)] = injected[ReqTab(r)]
    ]_vars

\* The script of a record's action.
ScriptOf(action) ==
    IF action = "enforce" THEN "src/actions/block.js" ELSE "src/actions/warn.js"

\* C15: for a resource of a domain with a valid record, an evaluation that
\* ends in an integrity error (key not importable, signature header missing
\* or undecodable, both verifies false) leaves the tab untrusted and injects
\* one script: block.js under enforce, warn.js under warn.
C15_IntegrityErrorUntrusted ==
    [][\A r \in Requests :
          ( /\ Ends(r)
            /\ ver[r].pc \in {"import", "verifyBlob", "verifyAb"}
            /\ ver[r].key # <<>>
            /\ ver'[r].outcome = "failure" ) =>
              /\ VALIDATION_RESULT_MAP'[ReqTab(r)] = "untrusted"
              /\ ver[r].action \in {"warn", "enforce"}
              /\ injected'[ReqTab(r)] = Append(injected[ReqTab(r)], ScriptOf(ver[r].action))
    ]_vars

\* The zone of the resource's domain holds a valid record.
Deployed(r) == dnsTxt[DnsQueryDomain(ReqUrl(r))] \in {<<TXT_Enforce_K1>>, <<TXT_Warn_K1>>}

\* C16: the evaluation of a resource of a domain with a record does not end
\* without a verdict for want of the capture entry: it ends in a failure when
\* the entry never appears.
C16_AbsentCaptureIsFailure ==
    \A r \in Requests :
        (Deployed(r) /\ Ended(r)) => ver[r].outcome # "not-captured"

\* C18: when an evaluation has ended with a verdict, the capture entry of its
\* URL is no longer stored.
C18_CaptureRemovedWithVerdict ==
    \A r \in Requests :
        (Ended(r) /\ ver[r].outcome \in {"ignored-domain", "failure", "verified"}) =>
            ~HasResponse(ReqTab(r), ReqUrl(r))

\* C20: a sub-resource whose wait for the main resource's action ran out goes
\* on with the action of its own record, and no evaluation passes an
\* undefined action to invokeFailure.
C20_FallbackToOwnAction ==
    [][\A r \in Requests :
          /\ ( /\ ver[r].pc = "wait"
               /\ ver[r].action \in {"warn", "enforce"}
               /\ ver'[r].pc = "import"
               /\ TAB_ACTION_MAP[ReqTab(r)] = "absent" ) =>
                 ver'[r].action = ver[r].action
          /\ (Ends(r) /\ ver'[r].outcome = "failure") =>
                 ver'[r].failureAction # "undefined"
    ]_vars

\* The trust states that record a failure.
FailureStates == {"untrusted", "doh-failure"}

\* C21: within a navigation, a tab whose state is untrusted or doh-failure
\* keeps a state of these two through every later step: no verdict of a
\* verified resource or of a resource without HARC makes it trusted or
\* trusted-partial.
C21_FailureStateNotUpgraded ==
    [][\A t \in Tabs :
          VALIDATION_RESULT_MAP[t] \in FailureStates =>
              VALIDATION_RESULT_MAP'[t] \in FailureStates
    ]_vars

\* The verification of a resource has succeeded in a tab that is untrusted.
C21_Witness ==
    \E r \in Requests :
        /\ ver[r].pc = "verifyBlob"
        /\ ver[r].blobOk = "true"
        /\ VALIDATION_RESULT_MAP[ReqTab(r)] = "untrusted"

\* The evaluation of r is suspended at `await browser.tabs.get(tabId)` or in
\* getHARCDNSPayload.
AwaitingTabOrDns(r) == ver[r].pc \in {"tabget", "dohcheck", "query"}

\* C22: when an evaluation that was awaiting tabs.get or the DNS resolution
\* resumes after its tab was removed, it leaves no entry for the tab in
\* VALIDATION_RESULT_MAP, TAB_ACTION_MAP or TAB_RESPONSES_MAP, so that a later
\* harcValidationResult query finds no trust state.
C22_NoStateOutlivesTab ==
    [][\A r \in Requests :
          ( /\ removed[ReqTab(r)]
            /\ AwaitingTabOrDns(r)
            /\ ver'[r].pc # ver[r].pc ) =>
              /\ VALIDATION_RESULT_MAP'[ReqTab(r)] = "absent"
              /\ TAB_ACTION_MAP'[ReqTab(r)] = "absent"
              /\ TAB_RESPONSES_MAP'[ReqTab(r)] = <<>>
    ]_vars

\* Call c of setDohServer has the choice "custom".
CustomCall(c) ==
    calls[c].payload # <<>> /\ calls[c].payload[1].choice = "custom"

\* C23: the step of setDohServer that follows a failed validation of a custom
\* address leaves DNS_DOH_RESOLVER as it is and the call reports no success;
\* the validation of an address that is no URL or does not resolve fails; and
\* a custom address becomes the resolver only in the step of a call whose
\* validation of that address succeeded.
C23_CustomResolverOnlyIfValidated ==
    [][ /\ \A c \in Calls :
               (calls[c].pc = "validate" /\ calls'[c].pc # "validate") =>
                   /\ ~HostResolves(calls[c].payload[1].customDohServerAddr) =>
                          ~calls'[c].success
                   /\ ~calls'[c].success => DNS_DOH_RESOLVER' = DNS_DOH_RESOLVER
        /\ (DNS_DOH_RESOLVER' # DNS_DOH_RESOLVER /\ DNS_DOH_RESOLVER' \in CustomAddrs) =>
               \E c \in Calls :
                   /\ calls[c].pc = "validate"
                   /\ calls[c].payload[1].customDohServerAddr = DNS_DOH_RESOLVER'
                   /\ calls'[c].success
                   /\ HostResolves(DNS_DOH_RESOLVER')
    ]_vars

\* A custom address that does not resolve was rejected after another call
\* of setDohServer had set the resolver to a listed server.
C23_Witness ==
    \E c, d \in Calls :
        /\ c # d
        /\ calls[c].pc = "done"
        /\ CustomCall(c)
        /\ ~HostResolves(calls[c].payload[1].customDohServerAddr)
        /\ ~calls[c].success
        /\ calls[d].pc = "done"
        /\ calls[d].payload[1].choice = "google"
        /\ DNS_DOH_RESOLVER = DOH_SERVER_CHOICES["google"]

\* C24: the call setDohServer({choice: "disable"}) returns with
\* DNS_DOH_RESOLVER null and VALIDATION_RESULT_MAP empty; an evaluation that
\* starts while the resolver is null ends at once: it sends no DNS query,
\* records no trust state and invokes no failure action.
C24_DisableStopsValidation ==
    [][ /\ \A c \in Calls :
               ( /\ calls[c].pc # "done"
                 /\ calls'[c].pc = "done"
                 /\ calls'[c].payload[1].choice = "disable" ) =>
                   /\ DNS_DOH_RESOLVER' = "null"
                   /\ \A t \in Tabs : VALIDATION_RESULT_MAP'[t] = "absent"
        /\ \A r \in Requests :
               ( /\ ver[r].pc = "none"
                 /\ ver'[r].pc # "none"
                 /\ DNS_DOH_RESOLVER = "null" ) =>
                   /\ ver'[r].pc = "done"
                   /\ ver'[r].outcome = "disabled"
                   /\ VALIDATION_RESULT_MAP' = VALIDATION_RESULT_MAP
                   /\ TAB_ACTION_MAP' = TAB_ACTION_MAP
                   /\ injected' = injected
    ]_vars

\* Validation was disabled by a call of setDohServer and a response that
\* completed while it was disabled was not evaluated.
C24_Witness ==
    /\ DNS_DOH_RESOLVER = "null"
    /\ \E c \in Calls : calls[c].pc = "done" /\ calls[c].payload[1].choice = "disable"
    /\ \E r \in Requests : ver[r].outcome = "disabled"

\* The trust states.
TrustStates ==
    {"unknown", "doh-failure", "ignored-domain", "ignored-resource", "trusted",
     "trusted-partial", "untrusted"}

\* C25: the answer to a harcValidationResult message is a trust state, for
\* every tab and at every moment.
C25_ResultIsATrustState ==
    (reply # <<>> /\ reply[1].type = "harcValidationResult") =>
        reply[1].data \in TrustStates

\* VALIDATION_RESULT_MAP.size
ValidationResultSize ==
    Cardinality({t \in DOMAIN VALIDATION_RESULT_MAP : VALIDATION_RESULT_MAP[t] # "absent"})

\* C26: VALIDATION_RESULT_MAP never holds more than
\* VALIDATION_RESULT_MAP_LIMIT entries.
C26_ResultTableBounded == ValidationResultSize <= VALIDATION_RESULT_MAP_LIMIT

\* C27: the response filter passes on every chunk it is given, once and in
\* the order of arrival, whatever is recorded for the verification: at every
\* moment the chunks written are the chunks that arrived, the filter is
\* closed only when all of the body was written, and the blob view published
\* is the concatenation of the chunks written.
C27_TransparentTap ==
    \A r \in Requests :
        /\ cap[r].pc \in {"data", "blob", "published"} =>
               /\ output[r].written = cap[r].chunks
               /\ Flatten(output[r].written) \o cap[r].rest = wire[r][1].body
        /\ output[r].closed =>
               /\ cap[r].pc \in {"blob", "published"}
               /\ Flatten(output[r].written) = wire[r][1].body
        /\ cap[r].pc = "published" => output[r].closed
        /\ (cap[r].pc = "published" /\ HasResponse(ReqTab(r), ReqUrl(r))) =>
               Captured(r).blob = Flatten(output[r].written)

\* A body that arrived in two chunks was passed on and published.
C27_Witness ==
    /\ cap[MainRequest].pc = "published"
    /\ Len(output[MainRequest].written) = 2
    /\ HasResponse(MainTab, ReqUrl(MainRequest))

\* The views the capture of request r assembles.
OwnCapture(r) == ResponseData(cap[r].decoder, cap[r].chunks)

\* C28: the views an evaluation takes from TAB_RESPONSES_MAP are those
\* captured from its own request, published at its onstop.
C28_VerifiesOwnCapture ==
    \A r \in Requests :
        ver[r].data # <<>> =>
            /\ cap[r].pc = "published"
            /\ ver[r].data[1] = OwnCapture(r)

\* The content types a verifier that skips resources would evaluate: those
\* the signer signs.
EligibleResource(r) == ShouldSign(HeaderLower(wire[r][1].headers, "content-type"))

\* The evaluation of r has asked the DNS for the domain's HARC record.
DnsLookupStarted(r) ==
    ver[r].pc \in {"query", "wait", "import", "verifyBlob", "verifyAb"}

\* C29: a completed response whose content type is not eligible is not
\* evaluated: it is ignored, so no DNS lookup is made for it and no failure
\* action is invoked for it.
C29_IneligibleResourceIgnored ==
    \A r \in Requests :
        (wire[r] # <<>> /\ ~EligibleResource(r)) =>
            /\ ~DnsLookupStarted(r)
            /\ ver[r].failureAction = "none"

\* The response delivered for request r carries no signature header.
Unsigned(r) == ~HasHeader(wire[r][1].headers, HARC_HEADER_SIGNATURE)

\* C30: the verifier demands a signature of no response the signer leaves
\* unsigned: on a domain with a valid record, a response that arrived as the
\* signer sent it and without X-ARC-SIGNATURE is not failed by the evaluation
\* that holds the record's key and the action of a record.
C30_UnsignedByDesignNotFailed ==
    \A r \in Requests :
        ( /\ wire[r] # <<>>
          /\ Deployed(r)
          /\ ~Tampered(r)
          /\ Ended(r)
          /\ ver[r].key # <<>>
          /\ ver[r].action \in {"warn", "enforce"} ) =>
            (Unsigned(r) => ver[r].outcome # "failure")

\* The state a tab in state `current` has after a resource of a domain
\* without record.
AfterNotDeployed(current) ==
    CASE current = "absent" -> "ignored-domain"
      [] current = "trusted" -> "trusted-partial"
      [] OTHER -> current

\* C31: the step that ends an evaluation with NotDeployed injects nothing and
\* leaves the tab ignored-domain when it had no state, trusted-partial when it
\* was trusted and in its state otherwise; the step that ends one as verified
\* in an ignored-domain tab leaves it trusted-partial; and a tab whose
\* document and image ended one as not deployed and one as verified is not
\* trusted.
C31_NotDeployedNeverFails ==
    [][ /\ \A r \in Requests :
             (Ends(r) /\ ver'[r].outcome = "ignored-domain") =>
                 /\ injected' = injected
                 /\ ver'[r].failureAction = "none"
                 /\ VALIDATION_RESULT_MAP'[ReqTab(r)] =
                        AfterNotDeployed(VALIDATION_RESULT_MAP[ReqTab(r)])
        /\ \A r \in Requests :
             ( /\ Ends(r)
               /\ ver'[r].outcome = "verified"
               /\ VALIDATION_RESULT_MAP[ReqTab(r)] = "ignored-domain" ) =>
                 VALIDATION_RESULT_MAP'[ReqTab(r)] = "trusted-partial"
        /\ ( /\ Ended(MainRequest)' /\ Ended(SubRequest)'
             /\ {ver'[MainRequest].outcome, ver'[SubRequest].outcome}
                    = {"ignored-domain", "verified"} ) =>
               VALIDATION_RESULT_MAP'[MainTab] # "trusted"
    ]_vars

\* C31 witness: the document's domain has no record, the image verified, and
\* the tab is trusted-partial.
C31_Witness ==
    /\ ver[MainRequest].outcome = "ignored-domain"
    /\ ver[SubRequest].outcome = "verified"
    /\ VALIDATION_RESULT_MAP[MainTab] = "trusted-partial"

\* The preference a setDohPreference payload asks for.
PreferenceOf(payload) ==
    [choice |-> payload.choice,
     customDohServerAddr |-> IF payload.choice = "custom"
                             THEN payload.customDohServerAddr
                             ELSE "null"]

\* Call c of setDohServer settles the resolver in this step, with success.
SavesPreference(c) ==
    /\ calls[c].pc \in {"none", "validate"}
    /\ calls'[c].pc \in {"badge", "done"}
    /\ calls'[c].success

\* C32: when a call of setDohServer has saved its preference with success,
\* getDohPreference answers with the choice of the call's payload, with its
\* customDohServerAddr for "custom" and null for a listed choice.
C32_PreferenceRoundTrip ==
    [][\A c \in Calls :
          SavesPreference(c) =>
              DohPreference(DNS_DOH_RESOLVER') = PreferenceOf(calls'[c].payload[1])
    ]_vars

\* C33: the wait of an evaluation for the main resource's action has slept
\* fewer than WaitLimit times whenever it sleeps, a sleep that ends with the
\* tab's action recorded is the last one, and every evaluation that has
\* started returns.
C33_EvaluationTerminates ==
    /\ [](\A r \in Requests : ver[r].pc = "wait" => ver[r].i < WaitLimit)
    /\ [][\A r \in Requests :
             ( /\ ver[r].pc = "wait"
               /\ ver'[r] # ver[r]
               /\ TAB_ACTION_MAP[ReqTab(r)] # "absent" ) => ver'[r].pc # "wait"
       ]_vars
    /\ \A r \in NavigationRequests : (ver[r].pc # "none") ~> (ver[r].pc = "done")

\* C33 witness: the image's evaluation slept WaitLimit times, the action of
\* the main resource was never recorded, and the evaluation returned.
C33_Witness ==
    /\ ver[SubRequest].pc = "done"
    /\ ver[SubRequest].i = WaitLimit - 1
    /\ ver[MainRequest].pc = "done"
    /\ TAB_ACTION_MAP[MainTab] = "absent"

\* C34: the tab's state after the evaluations of a navigation does not depend
\* on the order in which they end: a tab recorded as untrusted is not turned
\* into doh-failure by an evaluation that ends later.
C34_UntrustedNotReplacedByDohFailure ==
    [][\A t \in Tabs :
          VALIDATION_RESULT_MAP[t] = "untrusted" =>
              VALIDATION_RESULT_MAP'[t] # "doh-failure"
    ]_vars

\* Call c of setDohServer settles the resolver in this step and will report
\* success = false.
RejectsPreference(c) ==
    /\ calls[c].pc \in {"none", "validate"}
    /\ calls'[c].pc \in {"badge", "done"}
    /\ ~calls'[c].success

\* C35: a call of setDohServer that reports success = false leaves
\* DNS_DOH_RESOLVER as it was.
C35_FailedCallKeepsResolver ==
    [][\A c \in Calls :
          RejectsPreference(c) => DNS_DOH_RESOLVER' = DNS_DOH_RESOLVER
    ]_vars

\* The upstream response is encoded in a way the signer does not undo.
UpstreamStillEncoded ==
    /\ proxyRes[1].body # <<>>
    /\ HasHeader(proxyRes[1].headers, "content-encoding")
    /\ ToLowerCase(proxyRes[1].headers["content-encoding"]) # S_Gzip

\* C36: a response with a body whose upstream Content-Encoding is not gzip
\* is forwarded with its Content-Encoding header: the header is left out
\* only of a body the signer decompressed.
C36_EncodingHeaderDroppedOnlyIfDecoded ==
    (Answered /\ UpstreamStillEncoded) =>
        HasHeader(Forwarded.headers, "content-encoding")

\* C37: while validation is disabled no tab has a recorded state: an
\* evaluation that was in flight when the user disabled validation records
\* nothing once VALIDATION_RESULT_MAP was cleared.
C37_NoResultWhileDisabled ==
    DNS_DOH_RESOLVER = "null" =>
        \A t \in Tabs : VALIDATION_RESULT_MAP[t] = "absent"

\* What the extension holds for tab t.
TabEntries(t) ==
    <<TAB_ACTION_MAP[t], TAB_RESPONSES_MAP[t], VALIDATION_RESULT_MAP[t], injected[t]>>

\* C38: a step of the capture or evaluation of a request of one tab leaves
\* the entries of every other tab, and the scripts injected into it, as they
\* are; and clearTabRecords for one tab leaves the entries of every other tab.
C38_TabIsolation ==
    [][ /\ \A r \in Requests :
               (cap'[r] # cap[r] \/ ver'[r] # ver[r]) =>
                   \A t \in TwoTabs \ {ReqTab(r)} : TabEntries(t)' = TabEntries(t)
        /\ \A t \in TwoTabs :
               removed'[t] # removed[t] =>
                   \A u \in TwoTabs \ {t} : TabEntries(u)' = TabEntries(u)
    ]_vars

\* C38 witness: the document in the first tab ended in a failure and the tab
\* was closed, while the second tab keeps its state and its action.
C38_Witness ==
    /\ ver[MainRequest].outcome = "failure"
    /\ removed[ReqTab(MainRequest)]
    /\ VALIDATION_RESULT_MAP[ReqTab(MainRequest)] = "absent"
    /\ VALIDATION_RESULT_MAP[OtherTab] = "untrusted"
    /\ TAB_ACTION_MAP[OtherTab] = "enforce"
    /\ injected[OtherTab] = <<"src/actions/block.js">>

\* The requests of the tab's second navigation.
SecondNavigation == {NextMainRequest, SubRequest, DuplicateRequest}

\* C39: once the document of a new navigation is committed to the tab and
\* until the evaluation of one of its resources has ended, the tab has no
\* recorded state: the state of the previous document is not carried over.
C39_StateResetOnNavigation ==
    ( /\ tabUrl[MainTab] = ReqUrl(NextMainRequest)
      /\ \A r \in SecondNavigation : ver[r].pc # "done" ) =>
        VALIDATION_RESULT_MAP[MainTab] = "absent"

====
